---- MODULE Spec2Model ----
(***************************************************************************)
(* Primitive assembly of the SWR rasterizer front end (core/pa.h).         *)
(*                                                                         *)
(* The cut-aware assembler PA_STATE_CUT is modelled field by field as the  *)
(* record held in the variable paCut; every member function is an operator *)
(* from a PA_STATE_CUT record to the record after the call.  The vertex    *)
(* ring and the cut-mask ring the factory owns are modelled with it.  The  *)
(* tessellation assembler PA_TESS is the record held in paTess, over the   *)
(* index arrays and the domain-shader output it was constructed on.  The   *)
(* optimized assembler PA_STATE_OPT is the record held in paOpt, and the   *)
(* inputs and the choice of PA_FACTORY are held in factory.                *)
(*                                                                         *)
(* Fields whose name starts with g_ are history (ghost) fields: they are   *)
(* written by the model only, never read by an operator that models code.  *)
(***************************************************************************)
EXTENDS Integers, Sequences, FiniteSets, TLC

\* KNOB_SIMD_WIDTH, the number of lanes of one batch.  The shipped build uses
\* 8; the assembler is parametric in the width and the model is checked at a
\* small one.  All sizes below are derived from it as the code derives them.
W == 2

\* MAX_NUM_VERTS_PER_PRIM: rows of the gather table and of the topology window.
MAX_NUM_VERTS_PER_PRIM == 6

\* Largest draw (in_numVerts) that is explored.
MaxVerts == 12

\* Largest draw explored with a caller that asks IsVertexStoreFull() before
\* every feed: enough batches for the write cursor to lap the ring.
MaxVertsGuarded == 15

\* Largest number of primitives handed to the tessellation assembler.
MaxTessPrims == 5

\* Largest m_attributeStrideInVectors: the domain-shader output holds up to
\* MaxStride * W vertices.
MaxStride == 2

\* Largest number of cut bits set in the index stream of one draw.
MaxCuts == 1

\* Largest draw (numVerts) handed to the factory.
MaxDrawVerts == 4

\* Largest draw explored with Reset() among the operations, and the number of
\* Reset() calls in one behaviour.
MaxResetVerts == 6

MaxResets == 1

\* Largest triangle strip with adjacency run through the driver loop: a strip
\* cut after its first batch and long enough for a second pending vertex.
MaxStripVerts == 16

\* Vertices of the longest list with adjacency run under the driver loop: one
\* more than the ring holds.
MaxListVerts == 13

\* Bits of int32_t in the model: numRemainingVerts is an int32_t assigned from
\* the uint32_t in_numVerts, and the sign bit is the top bit of the word.
Int32Bits == 6

\* GetNextStreamOutput() is explored while headVertex stays within this many
\* ring lengths.
MaxStreamLaps == 1

\* Largest draw explored with GetNextStreamOutput() among the operations.
MaxStreamVerts == 2

\* Largest number of batch retires (Advance) in one behaviour.
MaxRetires == 4

\* in_streamSizeInVerts as the factory passes it: the ring of
\* MAX_NUM_VERTS_PER_PRIM batches of W vertices.
StreamSizeInVerts == MAX_NUM_VERTS_PER_PRIM * W

NumBatches == MAX_NUM_VERTS_PER_PRIM

\* sizeof(float), sizeof(simdvector) = 4 components of W floats and
\* sizeof(simdvertex) = KNOB_NUM_ATTRIBUTES simdvectors, in bytes.
SizeofFloat == 4

KNOB_NUM_ATTRIBUTES == 2

SizeofSimdvector == 4 * W * SizeofFloat

SizeofSimdvertex == KNOB_NUM_ATTRIBUTES * SizeofSimdvector

Lanes == 0 .. (W - 1)

VertRows == 0 .. (MAX_NUM_VERTS_PER_PRIM - 1)

RingPos == 0 .. (StreamSizeInVerts - 1)

\* Values an uninitialised 32-bit word may hold: the constructor leaves vert[]
\* and vOffsets[] unwritten and the strip-adjacency reorder copies the unset
\* nextTri[3].  One in-ring and one out-of-ring value stand for them.
Indeterminate == {0, StreamSizeInVerts + 1}

Topologies ==
  { "TOP_POINT_LIST", "TOP_LINE_LIST", "TOP_LINE_STRIP", "TOP_TRIANGLE_LIST",
    "TOP_TRIANGLE_STRIP", "TOP_LINE_LIST_ADJ", "TOP_LISTSTRIP_ADJ",
    "TOP_TRI_LIST_ADJ", "TOP_TRI_STRIP_ADJ" }

AdjTopologies ==
  { "TOP_LINE_LIST_ADJ", "TOP_LISTSTRIP_ADJ", "TOP_TRI_LIST_ADJ", "TOP_TRI_STRIP_ADJ" }

\* NumVertsPerPrim(topology, includeAdjVerts) of the front end: the number of
\* vertices of one assembled primitive.
NumVertsPerPrim(topo, includeAdjVerts) ==
  CASE topo = "TOP_POINT_LIST" -> 1
    [] topo \in {"TOP_LINE_LIST", "TOP_LINE_STRIP"} -> 2
    [] topo \in {"TOP_TRIANGLE_LIST", "TOP_TRIANGLE_STRIP"} -> 3
    [] topo \in {"TOP_LINE_LIST_ADJ", "TOP_LISTSTRIP_ADJ"} -> IF includeAdjVerts THEN 4 ELSE 2
    [] topo \in {"TOP_TRI_LIST_ADJ", "TOP_TRI_STRIP_ADJ"} -> IF includeAdjVerts THEN 6 ELSE 3
    [] topo = "TOP_TRIANGLE_FAN" -> 3
    [] OTHER -> 0

VARIABLES
  paCut,        \* the PA_STATE_CUT object
  vertexStore,  \* PA_FACTORY::vertexStore: per ring batch, the stream batch written there
  g_fed,        \* batches the caller has fed so far
  g_numCuts,    \* cut bits the caller has set so far
  g_retires,    \* calls of Advance so far
  paTess,       \* the PA_TESS object
  tessIndices,  \* the three index arrays in_ppIndices points into
  tessOut,      \* the caller's verts[] and the boolean of its last PA_TESS::Assemble
  paOpt,        \* the PA_STATE_OPT object
  factory,      \* PA_FACTORY: its template and constructor arguments, topo and cutPA
  g_call,       \* the last call of an operation a variant does not implement
  driver        \* the position of the caller in its loop over the cut-aware assembler

cutVars == <<paCut, vertexStore, g_fed, g_numCuts, g_retires>>

tessVars == <<paTess, tessIndices, tessOut>>

optVars == <<paOpt, factory>>

vars == <<paCut, vertexStore, g_fed, g_numCuts, g_retires, paTess, tessIndices, tessOut,
          paOpt, factory, g_call, driver>>

-----------------------------------------------------------------------------
(* PA_STATE_CUT: construction *)

\* The switch of the constructor: the per-vertex handler installed in pfnPa.
\* pfnPa after 'default: assert(0 && "Unimplemented topology")': the switch
\* assigns nothing.
Unassigned == "unassigned"

SelectPfnPa(topo, gsEnabled) ==
  CASE topo = "TOP_TRIANGLE_LIST" -> "ProcessVertTriList"
    [] topo = "TOP_TRI_LIST_ADJ" ->
         IF gsEnabled THEN "ProcessVertTriListAdj" ELSE "ProcessVertTriListAdjNoGs"
    [] topo = "TOP_TRIANGLE_STRIP" -> "ProcessVertTriStrip"
    [] topo = "TOP_TRI_STRIP_ADJ" ->
         IF gsEnabled THEN "ProcessVertTriStripAdj<true>" ELSE "ProcessVertTriStripAdj<false>"
    [] topo = "TOP_POINT_LIST" -> "ProcessVertPointList"
    [] topo = "TOP_LINE_LIST" -> "ProcessVertLineList"
    [] topo = "TOP_LINE_LIST_ADJ" ->
         IF gsEnabled THEN "ProcessVertLineListAdj" ELSE "ProcessVertLineListAdjNoGs"
    [] topo = "TOP_LINE_STRIP" -> "ProcessVertLineStrip"
    [] topo = "TOP_LISTSTRIP_ADJ" ->
         IF gsEnabled THEN "ProcessVertLineStripAdj" ELSE "ProcessVertLineStripAdjNoGs"
    [] OTHER -> Unassigned

\* vPrimId = _mm256_set_epi32(7, 6, 5, 4, 3, 2, 1, 0): lane i holds i.
InitialPrimId == [i \in Lanes |-> i]

\* The object the constructor leaves behind; junk is the content of the
\* members it does not write (vert[], vOffsets[]).
\* The int32_t a uint32_t converts to: the same word, top bit as sign.
ToInt32(x) ==
  LET m == x % (2 ^ Int32Bits)
  IN  IF m >= 2 ^ (Int32Bits - 1) THEN m - 2 ^ Int32Bits ELSE m

PA_STATE_CUT(in_streamSizeInVerts, in_numVerts, topo, gsEnabled, in_processCutVerts, junk) ==
  [ numVerts           |-> in_streamSizeInVerts,
    binTopology        |-> topo,
    needOffsets        |-> FALSE,
    processCutVerts    |-> in_processCutVerts,
    numVertsToAssemble |-> in_numVerts,
    numRemainingVerts  |-> ToInt32(in_numVerts),
    numPrimsAssembled  |-> 0,
    headVertex         |-> 0,
    tailVertex         |-> 0,
    curVertex          |-> 0,
    curIndex           |-> 0,
    pCutIndices        |-> [b \in 0 .. (NumBatches - 1) |-> [l \in Lanes |-> FALSE]],
    indices            |-> [v \in VertRows |-> [l \in Lanes |-> 0]],
    vOffsets           |-> [v \in VertRows |-> [l \in Lanes |-> junk]],
    vPrimId            |-> InitialPrimId,
    reverseWinding     |-> FALSE,
    adjExtraVert       |-> -1,
    gsEnabled          |-> gsEnabled,
    vertsPerPrim       |-> NumVertsPerPrim(topo, gsEnabled),
    vert               |-> [v \in VertRows |-> junk],
    pfnPa              |-> SelectPfnPa(topo, gsEnabled),
    g_ord              |-> [p \in RingPos |-> -1],
    g_emitted          |-> << >>,
    g_runStart         |-> 0,
    g_cutOrds          |-> {},
    g_restartOk        |-> TRUE,
    g_retiredPrims     |-> 0,
    g_oob              |-> FALSE,
    g_resets           |-> 0,
    g_windowOk         |-> TRUE ]

-----------------------------------------------------------------------------
(* PA_STATE_CUT: the gather table *)

\* indices[v][lane] = x.  indices is MAX_NUM_VERTS_PER_PRIM rows of W words,
\* directly followed by vOffsets of the same shape; a lane at or beyond W
\* lands in the following row, and past the last row in vOffsets, as the
\* declaration order of the members lays them out.
WriteIndices(s, v, lane, x) ==
  LET a == v * W + lane
      n == MAX_NUM_VERTS_PER_PRIM * W
      t == [s EXCEPT !.g_oob = @ \/ (lane >= W)]
  IN  IF a < n THEN [t EXCEPT !.indices[a \div W][a % W] = x]
      ELSE IF a < 2 * n THEN [t EXCEPT !.vOffsets[(a - n) \div W][(a - n) % W] = x]
      ELSE t

\* The word a read of indices[v][lane] returns, under the same layout.
ReadIndices(s, v, lane) ==
  LET a == v * W + lane
      n == MAX_NUM_VERTS_PER_PRIM * W
  IN  IF a < n THEN s.indices[a \div W][a % W]
      ELSE IF a < 2 * n THEN s.vOffsets[(a - n) \div W][(a - n) % W]
      ELSE 0

\* this->indices[v][this->numPrimsAssembled] = x
SetIndex(s, v, x) == WriteIndices(s, v, s.numPrimsAssembled, x)

\* this->vert[this->curIndex] = index; this->curIndex++.  History: g_windowOk
\* turns false when a write to vert[] falls outside the array or a handler
\* leaves curIndex above MAX_NUM_VERTS_PER_PRIM.
PushVert(s, index) ==
  IF s.curIndex \in VertRows
  THEN [s EXCEPT !.vert[s.curIndex] = index, !.curIndex = s.curIndex + 1]
  ELSE [s EXCEPT !.curIndex = s.curIndex + 1, !.g_windowOk = FALSE]

-----------------------------------------------------------------------------
(* Sequencing.  Then(e, F) is F applied to the value of e: the statement e   *)
(* followed by the statements F, with e evaluated once.                      *)

Then(e, F(_)) == CHOOSE r \in {F(x) : x \in {e}} : TRUE

-----------------------------------------------------------------------------
(* PA_STATE_CUT: the per-topology handlers.  Each takes the object, the ring *)
(* position of the vertex and the finish flag and yields the object after.   *)

\* Mutant of ProcessVertTriStrip: the winding parity is never flipped.
ProcessVertTriStrip_NoParityFlip(s, index, finish) ==
  Then(PushVert(s, index), LAMBDA s1 :
    IF s1.curIndex = 3
    THEN Then(SetIndex(s1, 0, s1.vert[0]), LAMBDA s2 :
         Then(IF s2.reverseWinding THEN SetIndex(s2, 1, s2.vert[2])
                                   ELSE SetIndex(s2, 1, s2.vert[1]), LAMBDA s3 :
         Then(IF s3.reverseWinding THEN SetIndex(s3, 2, s3.vert[1])
                                   ELSE SetIndex(s3, 2, s3.vert[2]), LAMBDA s4 :
         Then([s4 EXCEPT !.numPrimsAssembled = @ + 1], LAMBDA s5 :
         Then([s5 EXCEPT !.vert[0] = s5.vert[1]], LAMBDA s6 :
         Then([s6 EXCEPT !.vert[1] = s6.vert[2]], LAMBDA s7 :
           [s7 EXCEPT !.curIndex = 2]))))))
    ELSE s1)

ProcessVertTriStrip(s, index, finish) ==
  Then(PushVert(s, index), LAMBDA s1 :
    IF s1.curIndex = 3
    THEN Then(SetIndex(s1, 0, s1.vert[0]), LAMBDA s2 :
         Then(IF s2.reverseWinding THEN SetIndex(s2, 1, s2.vert[2])
                                   ELSE SetIndex(s2, 1, s2.vert[1]), LAMBDA s3 :
         Then(IF s3.reverseWinding THEN SetIndex(s3, 2, s3.vert[1])
                                   ELSE SetIndex(s3, 2, s3.vert[2]), LAMBDA s4 :
         Then([s4 EXCEPT !.numPrimsAssembled = @ + 1], LAMBDA s5 :
         Then([s5 EXCEPT !.vert[0] = s5.vert[1]], LAMBDA s6 :
         Then([s6 EXCEPT !.vert[1] = s6.vert[2]], LAMBDA s7 :
           [s7 EXCEPT !.curIndex = 2, !.reverseWinding = ~@]))))))
    ELSE s1)

AssembleTriStripAdj(gsEnabled, s) ==
  IF ~gsEnabled
  THEN Then([s EXCEPT !.vert[1] = s.vert[2]], LAMBDA s1 :
       Then([s1 EXCEPT !.vert[2] = s1.vert[4]], LAMBDA s2 :
       Then(SetIndex(s2, 0, s2.vert[0]), LAMBDA s3 :
       Then(SetIndex(s3, 1, s3.vert[1]), LAMBDA s4 :
       Then(SetIndex(s4, 2, s4.vert[2]), LAMBDA s5 :
       Then([s5 EXCEPT !.vert[4] = s5.vert[2]], LAMBDA s6 :
       Then([s6 EXCEPT !.vert[2] = s6.vert[1]], LAMBDA s7 :
         [s7 EXCEPT !.numPrimsAssembled = @ + 1])))))))
  ELSE Then(SetIndex(s, 0, s.vert[0]), LAMBDA s1 :
       Then(SetIndex(s1, 1, s1.vert[1]), LAMBDA s2 :
       Then(SetIndex(s2, 2, s2.vert[2]), LAMBDA s3 :
       Then(SetIndex(s3, 3, s3.vert[3]), LAMBDA s4 :
       Then(SetIndex(s4, 4, s4.vert[4]), LAMBDA s5 :
       Then(SetIndex(s5, 5, s5.vert[5]), LAMBDA s6 :
         [s6 EXCEPT !.numPrimsAssembled = @ + 1]))))))

\* Mutant of NextTri: the un-reversed layout is used for both parities.
NextTri_IgnoresParity(s, junk3) ==
  [i \in VertRows |->
     CASE i = 0 -> s.vert[2] [] i = 1 -> s.adjExtraVert [] i = 2 -> s.vert[3]
       [] i = 3 -> junk3     [] i = 4 -> s.vert[4] [] i = 5 -> s.vert[0]]

\* The reorder step shared by case 5 and case 6: the six slots of the next
\* triangle from those of the one just assembled.  Slot 3 of nextTri is never
\* assigned in the code and is copied all the same: junk3 is what it holds.
NextTri(s, junk3) ==
  IF s.reverseWinding
  THEN [i \in VertRows |->
          CASE i = 0 -> s.vert[4] [] i = 1 -> s.vert[0] [] i = 2 -> s.vert[2]
            [] i = 3 -> junk3     [] i = 4 -> s.vert[3] [] i = 5 -> s.adjExtraVert]
  ELSE [i \in VertRows |->
          CASE i = 0 -> s.vert[2] [] i = 1 -> s.adjExtraVert [] i = 2 -> s.vert[3]
            [] i = 3 -> junk3     [] i = 4 -> s.vert[4] [] i = 5 -> s.vert[0]]

\* junk3 is the indeterminate word of nextTri[3]; the caller of the handler
\* chooses it.
ProcessVertTriStripAdj(gsEnabled, s, index, finish, junk3) ==
  IF finish /\ s.adjExtraVert # -1
  THEN Then([s EXCEPT !.vert[3] = s.adjExtraVert], LAMBDA s1 :
       Then(AssembleTriStripAdj(gsEnabled, s1), LAMBDA s2 :
         [s2 EXCEPT !.adjExtraVert = -1]))
  ELSE CASE s.curIndex \in {0, 1, 2, 4} -> PushVert(s, index)
         [] s.curIndex = 3 -> [s EXCEPT !.vert[5] = index, !.curIndex = @ + 1]
         [] s.curIndex = 5 ->
              IF s.adjExtraVert = -1
              THEN [s EXCEPT !.adjExtraVert = index]
              ELSE Then([s EXCEPT !.vert[3] = index], LAMBDA s1 :
                   IF ~gsEnabled
                   THEN Then(AssembleTriStripAdj(gsEnabled, s1), LAMBDA s2 :
                        Then([s2 EXCEPT !.vert = NextTri(s2, junk3)], LAMBDA s3 :
                          [s3 EXCEPT !.adjExtraVert = -1, !.reverseWinding = ~@]))
                   ELSE [s1 EXCEPT !.curIndex = @ + 1])
         [] s.curIndex = 6 ->
              Then(AssembleTriStripAdj(gsEnabled, s), LAMBDA s1 :
              Then([s1 EXCEPT !.vert = NextTri(s1, junk3)], LAMBDA s2 :
                [s2 EXCEPT !.reverseWinding = ~@, !.adjExtraVert = index,
                           !.curIndex = @ - 1]))
         [] OTHER -> s

\* Mutant of ProcessVertTriList: the last two corners are written swapped.
ProcessVertTriList_SwapsCorners(s, index, finish) ==
  Then(PushVert(s, index), LAMBDA s1 :
    IF s1.curIndex = 3
    THEN Then(SetIndex(s1, 0, s1.vert[0]), LAMBDA s2 :
         Then(SetIndex(s2, 1, s2.vert[2]), LAMBDA s3 :
         Then(SetIndex(s3, 2, s3.vert[1]), LAMBDA s4 :
           [s4 EXCEPT !.numPrimsAssembled = @ + 1, !.curIndex = 0])))
    ELSE s1)

ProcessVertTriList(s, index, finish) ==
  Then(PushVert(s, index), LAMBDA s1 :
    IF s1.curIndex = 3
    THEN Then(SetIndex(s1, 0, s1.vert[0]), LAMBDA s2 :
         Then(SetIndex(s2, 1, s2.vert[1]), LAMBDA s3 :
         Then(SetIndex(s3, 2, s3.vert[2]), LAMBDA s4 :
           [s4 EXCEPT !.numPrimsAssembled = @ + 1, !.curIndex = 0])))
    ELSE s1)

ProcessVertTriListAdj(s, index, finish) ==
  Then(PushVert(s, index), LAMBDA s1 :
    IF s1.curIndex = 6
    THEN Then(SetIndex(s1, 0, s1.vert[0]), LAMBDA s2 :
         Then(SetIndex(s2, 1, s2.vert[1]), LAMBDA s3 :
         Then(SetIndex(s3, 2, s3.vert[2]), LAMBDA s4 :
         Then(SetIndex(s4, 3, s4.vert[3]), LAMBDA s5 :
         Then(SetIndex(s5, 4, s5.vert[4]), LAMBDA s6 :
         Then(SetIndex(s6, 5, s6.vert[5]), LAMBDA s7 :
           [s7 EXCEPT !.numPrimsAssembled = @ + 1, !.curIndex = 0]))))))
    ELSE s1)

ProcessVertTriListAdjNoGs(s, index, finish) ==
  Then(PushVert(s, index), LAMBDA s1 :
    IF s1.curIndex = 6
    THEN Then(SetIndex(s1, 0, s1.vert[0]), LAMBDA s2 :
         Then(SetIndex(s2, 1, s2.vert[2]), LAMBDA s3 :
         Then(SetIndex(s3, 2, s3.vert[4]), LAMBDA s4 :
           [s4 EXCEPT !.numPrimsAssembled = @ + 1, !.curIndex = 0])))
    ELSE s1)

ProcessVertLineList(s, index, finish) ==
  Then(PushVert(s, index), LAMBDA s1 :
    IF s1.curIndex = 2
    THEN Then(SetIndex(s1, 0, s1.vert[0]), LAMBDA s2 :
         Then(SetIndex(s2, 1, s2.vert[1]), LAMBDA s3 :
           [s3 EXCEPT !.numPrimsAssembled = @ + 1, !.curIndex = 0]))
    ELSE s1)

\* Mutant of ProcessVertLineStrip: the window is not shifted after a line.
ProcessVertLineStrip_KeepsWindow(s, index, finish) ==
  Then(PushVert(s, index), LAMBDA s1 :
    IF s1.curIndex >= 2
    THEN Then(SetIndex(s1, 0, s1.vert[0]), LAMBDA s2 :
         Then(SetIndex(s2, 1, s2.vert[1]), LAMBDA s3 :
           [s3 EXCEPT !.numPrimsAssembled = @ + 1]))
    ELSE s1)

ProcessVertLineStrip(s, index, finish) ==
  Then(PushVert(s, index), LAMBDA s1 :
    IF s1.curIndex = 2
    THEN Then(SetIndex(s1, 0, s1.vert[0]), LAMBDA s2 :
         Then(SetIndex(s2, 1, s2.vert[1]), LAMBDA s3 :
         Then([s3 EXCEPT !.numPrimsAssembled = @ + 1], LAMBDA s4 :
           [s4 EXCEPT !.vert[0] = s4.vert[1], !.curIndex = 1])))
    ELSE s1)

\* vert[0] = vert[1]; vert[1] = vert[2]; vert[2] = vert[3]; curIndex = 3
ShiftLineStripAdj(s) ==
  Then([s EXCEPT !.vert[0] = s.vert[1]], LAMBDA s1 :
  Then([s1 EXCEPT !.vert[1] = s1.vert[2]], LAMBDA s2 :
  Then([s2 EXCEPT !.vert[2] = s2.vert[3]], LAMBDA s3 :
    [s3 EXCEPT !.curIndex = 3])))

ProcessVertLineStripAdj(s, index, finish) ==
  Then(PushVert(s, index), LAMBDA s1 :
    IF s1.curIndex = 4
    THEN Then(SetIndex(s1, 0, s1.vert[0]), LAMBDA s2 :
         Then(SetIndex(s2, 1, s2.vert[1]), LAMBDA s3 :
         Then(SetIndex(s3, 2, s3.vert[2]), LAMBDA s4 :
         Then(SetIndex(s4, 3, s4.vert[3]), LAMBDA s5 :
         Then([s5 EXCEPT !.numPrimsAssembled = @ + 1], LAMBDA s6 :
           ShiftLineStripAdj(s6))))))
    ELSE s1)

ProcessVertLineStripAdjNoGs(s, index, finish) ==
  Then(PushVert(s, index), LAMBDA s1 :
    IF s1.curIndex = 4
    THEN Then(SetIndex(s1, 0, s1.vert[1]), LAMBDA s2 :
         Then(SetIndex(s2, 1, s2.vert[2]), LAMBDA s3 :
         Then([s3 EXCEPT !.numPrimsAssembled = @ + 1], LAMBDA s4 :
           ShiftLineStripAdj(s4))))
    ELSE s1)

ProcessVertLineListAdj(s, index, finish) ==
  Then(PushVert(s, index), LAMBDA s1 :
    IF s1.curIndex = 4
    THEN Then(SetIndex(s1, 0, s1.vert[0]), LAMBDA s2 :
         Then(SetIndex(s2, 1, s2.vert[1]), LAMBDA s3 :
         Then(SetIndex(s3, 2, s3.vert[2]), LAMBDA s4 :
         Then(SetIndex(s4, 3, s4.vert[3]), LAMBDA s5 :
           [s5 EXCEPT !.numPrimsAssembled = @ + 1, !.curIndex = 0]))))
    ELSE s1)

\* Mutant of ProcessVertLineListAdjNoGs: the line runs between the first two
\* vertices of the window.
ProcessVertLineListAdjNoGs_FirstTwo(s, index, finish) ==
  Then(PushVert(s, index), LAMBDA s1 :
    IF s1.curIndex = 4
    THEN Then(SetIndex(s1, 0, s1.vert[0]), LAMBDA s2 :
         Then(SetIndex(s2, 1, s2.vert[1]), LAMBDA s3 :
           [s3 EXCEPT !.numPrimsAssembled = @ + 1, !.curIndex = 0]))
    ELSE s1)

ProcessVertLineListAdjNoGs(s, index, finish) ==
  Then(PushVert(s, index), LAMBDA s1 :
    IF s1.curIndex = 4
    THEN Then(SetIndex(s1, 0, s1.vert[1]), LAMBDA s2 :
         Then(SetIndex(s2, 1, s2.vert[2]), LAMBDA s3 :
           [s3 EXCEPT !.numPrimsAssembled = @ + 1, !.curIndex = 0]))
    ELSE s1)

ProcessVertPointList(s, index, finish) ==
  Then(PushVert(s, index), LAMBDA s1 :
    IF s1.curIndex = 1
    THEN Then(SetIndex(s1, 0, s1.vert[0]), LAMBDA s2 :
           [s2 EXCEPT !.numPrimsAssembled = @ + 1, !.curIndex = 0])
    ELSE s1)

\* (this->*pfnPa)(index, finish)
CallPfnPa(s, index, finish, junk3) ==
  CASE s.pfnPa = "ProcessVertTriList" -> ProcessVertTriList(s, index, finish)
    [] s.pfnPa = "ProcessVertTriListAdj" -> ProcessVertTriListAdj(s, index, finish)
    [] s.pfnPa = "ProcessVertTriListAdjNoGs" -> ProcessVertTriListAdjNoGs(s, index, finish)
    [] s.pfnPa = "ProcessVertTriStrip" -> ProcessVertTriStrip(s, index, finish)
    [] s.pfnPa = "ProcessVertTriStripAdj<true>" ->
         ProcessVertTriStripAdj(TRUE, s, index, finish, junk3)
    [] s.pfnPa = "ProcessVertTriStripAdj<false>" ->
         ProcessVertTriStripAdj(FALSE, s, index, finish, junk3)
    [] s.pfnPa = "ProcessVertPointList" -> ProcessVertPointList(s, index, finish)
    [] s.pfnPa = "ProcessVertLineList" -> ProcessVertLineList(s, index, finish)
    [] s.pfnPa = "ProcessVertLineListAdj" -> ProcessVertLineListAdj(s, index, finish)
    [] s.pfnPa = "ProcessVertLineListAdjNoGs" -> ProcessVertLineListAdjNoGs(s, index, finish)
    [] s.pfnPa = "ProcessVertLineStrip" -> ProcessVertLineStrip(s, index, finish)
    [] s.pfnPa = "ProcessVertLineStripAdj" -> ProcessVertLineStripAdj(s, index, finish)
    [] s.pfnPa = "ProcessVertLineStripAdjNoGs" -> ProcessVertLineStripAdjNoGs(s, index, finish)

-----------------------------------------------------------------------------
(* PA_STATE_CUT: member functions *)

HasWork(s) == s.numRemainingVerts > 0 \/ s.adjExtraVert # -1

IsVertexStoreFull(s) == ((s.headVertex + W) % s.numVerts) = s.tailVertex

\* Mutant of RestartTopology: the window cursor survives the restart.
RestartTopology_KeepsCurIndex(s) ==
  [s EXCEPT !.reverseWinding = FALSE, !.adjExtraVert = -1]

RestartTopology(s) ==
  [s EXCEPT !.curIndex = 0, !.reverseWinding = FALSE, !.adjExtraVert = -1]

\* vertexIndex = vertex / KNOB_SIMD_WIDTH, vertexOffset = vertex & (KNOB_SIMD_WIDTH - 1),
\* then the bit test on the mask of that batch.
IsCutIndex(s, vertex) ==
  LET vertexIndex == vertex \div W
      vertexOffset == vertex % W
  IN  s.pCutIndices[vertexIndex][vertexOffset]

NumPrims(s) == s.numPrimsAssembled

\* History: the position in the draw of the vertex last processed at ring
\* position p (-1: none, or p is no ring position).
OrdOf(s, p) == IF p \in DOMAIN s.g_ord THEN s.g_ord[p] ELSE -1

\* (this->*pfnPa)(index, finish), and the history of the primitives it wrote:
\* when the call assembled a primitive, the draw positions of its vertices, the
\* draw position the current cut-free run started at, the lane written and
\* the parity the handler held when it was called are appended to g_emitted.
Handle(s, index, finish, junk3) ==
  Then(CallPfnPa(s, index, finish, junk3), LAMBDA c :
  Then([c EXCEPT !.g_windowOk = @ /\ c.curIndex <= MAX_NUM_VERTS_PER_PRIM], LAMBDA t :
    IF t.numPrimsAssembled = s.numPrimsAssembled THEN t
    ELSE [t EXCEPT !.g_emitted =
            Append(@, [ verts  |-> [v \in 0 .. (t.vertsPerPrim - 1) |->
                                       OrdOf(t, ReadIndices(t, v, s.numPrimsAssembled))],
                        run    |-> s.g_runStart,
                        lane   |-> s.numPrimsAssembled,
                        rev    |-> s.reverseWinding,
                        finish |-> finish ])]))

\* The topology state RestartTopology and the constructor set.
FreshTopology(s) == s.curIndex = 0 /\ ~s.reverseWinding /\ s.adjExtraVert = -1

\* Mutant of ProcessVertsBody: at a cut vertex the pending primitive is
\* finished before the cut vertex is handed to the handler.
ProcessVertsBody_FinishFirst(s, junk3) ==
  Then(s.numVertsToAssemble - s.numRemainingVerts, LAMBDA ordv :
  Then([s EXCEPT !.g_ord[s.curVertex] = ordv,
                 !.g_restartOk = @ /\ ((ordv > 0 /\ ordv = s.g_runStart) => FreshTopology(s))],
       LAMBDA g :
  Then(IF IsCutIndex(g, g.curVertex)
       THEN Then(IF g.adjExtraVert # -1
                 THEN Handle(g, g.curVertex, TRUE, junk3)
                 ELSE g, LAMBDA a :
            Then(IF a.processCutVerts
                 THEN Handle(a, a.curVertex, FALSE, junk3)
                 ELSE a, LAMBDA b :
            Then(RestartTopology(b), LAMBDA c :
              [c EXCEPT !.g_runStart = ordv + 1, !.g_cutOrds = @ \cup {ordv}])))
       ELSE Handle(g, g.curVertex, FALSE, junk3), LAMBDA t :
    [t EXCEPT !.curVertex = (@ + 1) % t.numVerts,
              !.numRemainingVerts = @ - 1])))

\* One iteration of the while loop of ProcessVerts.  History: g_ord notes the
\* draw position of the vertex, g_runStart and g_cutOrds the cuts met, and
\* g_restartOk whether every vertex that directly followed a cut vertex found
\* the topology state fresh.
ProcessVertsBody(s, junk3) ==
  Then(s.numVertsToAssemble - s.numRemainingVerts, LAMBDA ordv :
  Then([s EXCEPT !.g_ord[s.curVertex] = ordv,
                 !.g_restartOk = @ /\ ((ordv > 0 /\ ordv = s.g_runStart) => FreshTopology(s))],
       LAMBDA g :
  Then(IF IsCutIndex(g, g.curVertex)
       THEN Then(IF g.processCutVerts
                 THEN Handle(g, g.curVertex, FALSE, junk3)
                 ELSE g, LAMBDA a :
            Then(IF a.adjExtraVert # -1
                 THEN Handle(a, a.curVertex, TRUE, junk3)
                 ELSE a, LAMBDA b :
            Then(RestartTopology(b), LAMBDA c :
              [c EXCEPT !.g_runStart = ordv + 1, !.g_cutOrds = @ \cup {ordv}])))
       ELSE Handle(g, g.curVertex, FALSE, junk3), LAMBDA t :
    [t EXCEPT !.curVertex = (@ + 1) % t.numVerts,
              !.numRemainingVerts = @ - 1])))

RECURSIVE ProcessVertsLoop(_, _)
ProcessVertsLoop(s, junk3) ==
  IF /\ s.numPrimsAssembled # W
     /\ s.numRemainingVerts > 0
     /\ s.curVertex # s.headVertex
  THEN Then(ProcessVertsBody(s, junk3), LAMBDA t : ProcessVertsLoop(t, junk3))
  ELSE s

\* Mutant of ProcessVerts: the finish call is made whether or not an extra
\* vertex is pending.
ProcessVerts_AlwaysFinishes(s, junk3) ==
  Then(ProcessVertsLoop(s, junk3), LAMBDA t :
    IF t.numPrimsAssembled # W /\ t.numRemainingVerts = 0
    THEN Handle(t, t.curVertex, TRUE, junk3)
    ELSE t)

ProcessVerts(s, junk3) ==
  Then(ProcessVertsLoop(s, junk3), LAMBDA t :
    IF t.numPrimsAssembled # W /\ t.numRemainingVerts = 0 /\ t.adjExtraVert # -1
    THEN Handle(t, t.curVertex, TRUE, junk3)
    ELSE t)

Advance(s) ==
  [s EXCEPT !.tailVertex = s.curVertex,
            !.numPrimsAssembled = 0,
            !.vPrimId = [i \in Lanes |-> @[i] + W]]

\* NextPrim always returns false; this is the object it leaves.
NextPrim(s) ==
  IF s.numPrimsAssembled = W \/ s.numRemainingVerts <= 0 THEN Advance(s) ELSE s

\* simdShift = 3 and simdMask = 0x7 are log2 of the width and the width - 1.
ComputeOffsets(s) ==
  [s EXCEPT !.vOffsets =
     [v \in VertRows |->
        IF v < s.vertsPerPrim
        THEN [l \in Lanes |->
                LET vVertexBatch == s.indices[v][l] \div W
                    vVertexIndex == s.indices[v][l] % W
                IN  vVertexBatch * SizeofSimdvertex + vVertexIndex * SizeofFloat]
        ELSE @[v]]]

\* The boolean Assemble returns, from the object ProcessVerts left.
AssembleReturn(t) == ~(t.numPrimsAssembled # W /\ t.numRemainingVerts > 0)

\* The object after Assemble(slot, result).
Assemble(s, junk3) ==
  Then(ProcessVerts(s, junk3), LAMBDA t :
    IF ~AssembleReturn(t) THEN t
    ELSE IF t.needOffsets
         THEN Then(ComputeOffsets(t), LAMBDA u : [u EXCEPT !.needOffsets = FALSE])
         ELSE t)

\* The float at byte offset off of the vertex ring: simdvertex batch, then
\* attribute slot, then component, then lane.  The data of a vertex is named
\* by the stream batch written there, its lane, the slot and the component.
LoadFloat(store, off) ==
  LET batch == off \div SizeofSimdvertex
      r1 == off % SizeofSimdvertex
      slot == r1 \div SizeofSimdvector
      r2 == r1 % SizeofSimdvector
      comp == r2 \div (W * SizeofFloat)
      r3 == r2 % (W * SizeofFloat)
  IN  IF off >= 0 /\ batch \in DOMAIN store /\ r3 % SizeofFloat = 0 /\ store[batch] >= 0
      THEN <<store[batch] * W + (r3 \div SizeofFloat), slot, comp>>
      ELSE <<-1, -1, -1>>

\* result[v].v[c] as Assemble gathers it from the offsets of the object s.
AssembleResult(s, store, slot) ==
  [v \in 0 .. (s.vertsPerPrim - 1) |->
     [c \in 0 .. 3 |->
        [l \in Lanes |->
           LoadFloat(store, s.vOffsets[v][l] + slot * SizeofSimdvector
                              + c * W * SizeofFloat)]]]

\* tri[v][c] as AssembleSingle(slot, triIndex, tri) reads it.
AssembleSingle(s, store, slot, triIndex) ==
  [v \in 0 .. (s.vertsPerPrim - 1) |->
     [c \in 0 .. 3 |->
        LoadFloat(store, s.vOffsets[v][triIndex] + SizeofSimdvector * slot
                           + c * W * SizeofFloat)]]

\* The object after GetNextVsOutput(); it returns the batch at headVertex / W.
GetNextVsOutput(s) ==
  [s EXCEPT !.headVertex = (s.headVertex + W) % s.numVerts,
            !.needOffsets = TRUE]

\* The object after GetNextStreamOutput(); it returns HasWork().
GetNextStreamOutput(s) ==
  [s EXCEPT !.headVertex = s.headVertex + W,
            !.needOffsets = TRUE]

\* Mutant of Reset: the window cursor survives.
Reset_KeepsCurIndex(s) ==
  [s EXCEPT !.numRemainingVerts = ToInt32(s.numVertsToAssemble),
            !.numPrimsAssembled = 0,
            !.curVertex = 0,
            !.tailVertex = 0,
            !.headVertex = 0,
            !.reverseWinding = FALSE,
            !.adjExtraVert = -1,
            !.vPrimId = InitialPrimId]

Reset(s) ==
  [s EXCEPT !.numRemainingVerts = ToInt32(s.numVertsToAssemble),
            !.numPrimsAssembled = 0,
            !.curIndex = 0,
            !.curVertex = 0,
            !.tailVertex = 0,
            !.headVertex = 0,
            !.reverseWinding = FALSE,
            !.adjExtraVert = -1,
            !.vPrimId = InitialPrimId]

\* simdscalari GetPrimID(startID): startID added to every lane of vPrimId.
GetPrimID(s, startID) == [i \in Lanes |-> startID + s.vPrimId[i]]

\* GetSimdVector(index, slot): SWR_ASSERT(0 && "Not implemented"), then a
\* reference to tmpVertex.attrib[0] is returned.  The object after, and whether
\* an assertion with a false condition was reached.
GetSimdVector(s) == [obj |-> s, asserted |-> TRUE]

-----------------------------------------------------------------------------
(* PA_TESS *)

\* The object the constructor leaves behind.  The index pointers are kept as
\* offsets into the arrays of tessIndices; a topology outside the switch
\* leaves m_numVertsPerPrim at its initialiser 0.
PA_TESS(in_attributeStrideInVectors, in_numAttributes, in_numPrims, in_binTopology) ==
  [ m_attributeStrideInVectors |-> in_attributeStrideInVectors,
    m_numAttributes            |-> in_numAttributes,
    m_numPrims                 |-> in_numPrims,
    m_vPrimId                  |-> [i \in Lanes |-> 0],
    binTopology                |-> in_binTopology,
    m_ppIndices                |-> [v \in 0 .. 2 |-> 0],
    m_numVertsPerPrim          |->
      CASE in_binTopology = "TOP_POINT_LIST" -> 1
        [] in_binTopology = "TOP_LINE_LIST" -> 2
        [] in_binTopology = "TOP_TRIANGLE_LIST" -> 3
        [] OTHER -> 0,
    g_numPrims                 |-> in_numPrims,
    g_nextPrims                |-> 0,
    g_sumNumPrims              |-> 0 ]

TessHasWork(t) == t.m_numPrims # 0

\* std::min<uint32_t>(m_numPrims, KNOB_SIMD_WIDTH)
TessNumPrims(t) == IF t.m_numPrims < W THEN t.m_numPrims ELSE W

\* The table of GenPrimMask: W words of -1 followed by W words of 0.
maskGen == [k \in 0 .. (2 * W - 1) |-> IF k < W THEN -1 ELSE 0]

\* Mutant of GenPrimMask: the table is read from numPrims on.
GenPrimMask_FromNumPrims(numPrims) == [i \in Lanes |-> maskGen[numPrims + i]]

\* _simd_loadu_si(&maskGen[KNOB_SIMD_WIDTH - numPrims])
GenPrimMask(numPrims) == [i \in Lanes |-> maskGen[W - numPrims + i]]

\* The float at index addr of m_pVertexData read as const float*.  The buffer
\* is an array of simdscalar: for every attribute and component a plane of
\* m_attributeStrideInVectors vectors of W lanes, vertex u in vector u / W,
\* lane u % W.  The float is named by its vertex, attribute and component.
VertexDataFloat(t, addr) ==
  LET element == addr \div W
      lane == addr % W
      plane == element \div t.m_attributeStrideInVectors
      vec == element % t.m_attributeStrideInVectors
  IN  IF addr >= 0 /\ plane < 4 * t.m_numAttributes
      THEN <<vec * W + lane, plane \div 4, plane % 4>>
      ELSE <<-1, -1, -1>>

\* _simd_setzero_ps() in one lane.
ZeroFloat == <<0, 0, -1>>

\* _simd_load_si(m_ppIndices[v]): W words from the pointer on; a word past
\* the end of the array is indeterminate.
LoadIndices(t, idx, v, junk) ==
  [i \in Lanes |->
     IF t.m_ppIndices[v] + i \in DOMAIN idx[v]
     THEN idx[v][t.m_ppIndices[v] + i] ELSE junk]

\* _simd_mask_i32gather_ps(zero, pBase, indices, mask, 4)
MaskGather(t, pBase, indices, mask) ==
  [i \in Lanes |->
     IF mask[i] < 0 THEN VertexDataFloat(t, pBase + indices[i]) ELSE ZeroFloat]

\* Mutant of TessAssemble: the component planes are taken one vector apart.
TessAssemble_VectorStride(t, idx, slot, junk, out) ==
  IF TessNumPrims(t) = 0
  THEN [obj |-> t, ret |-> FALSE, verts |-> out]
  ELSE [obj |-> t, ret |-> TRUE,
        verts |->
          [v \in 0 .. (t.m_numVertsPerPrim - 1) |->
             [c \in 0 .. 3 |->
                MaskGather(t, slot * t.m_attributeStrideInVectors * 4 * W + c * W,
                           LoadIndices(t, idx, v, junk),
                           GenPrimMask(TessNumPrims(t)))]]]

\* Assemble(slot, verts): the object after, the boolean returned and verts[]
\* after; out is verts[] before.  No member is assigned.
TessAssemble(t, idx, slot, junk, out) ==
  IF TessNumPrims(t) = 0
  THEN [obj |-> t, ret |-> FALSE, verts |-> out]
  ELSE [obj |-> t, ret |-> TRUE,
        verts |->
          [v \in 0 .. (t.m_numVertsPerPrim - 1) |->
             [c \in 0 .. 3 |->
                MaskGather(t, slot * t.m_attributeStrideInVectors * 4 * W
                                + c * t.m_attributeStrideInVectors * W,
                           LoadIndices(t, idx, v, junk),
                           GenPrimMask(TessNumPrims(t)))]]]

\* AssembleSingle(slot, primIndex, verts): verts[v][c] after.
TessAssembleSingle(t, idx, slot, primIndex) ==
  [v \in 0 .. (t.m_numVertsPerPrim - 1) |->
     [c \in 0 .. 3 |->
        VertexDataFloat(t, slot * t.m_attributeStrideInVectors * 4 * W
                             + c * t.m_attributeStrideInVectors * W
                             + idx[v][t.m_ppIndices[v] + primIndex])]]

\* Mutant of TessNextPrim: the index pointers step a full batch.
TessNextPrim_PointersByW(t) ==
  [t EXCEPT !.m_numPrims = @ - TessNumPrims(t),
            !.m_ppIndices = [v \in 0 .. 2 |-> @[v] + W],
            !.g_nextPrims = IF TessHasWork(t) THEN @ + 1 ELSE @,
            !.g_sumNumPrims = @ + TessNumPrims(t)]

\* The object after NextPrim().  History: g_numPrims is the count the
\* constructor was given, g_nextPrims the calls made while primitives
\* remained, g_sumNumPrims the sum of NumPrims() over the calls.
TessNextPrim(t) ==
  [t EXCEPT !.m_numPrims = @ - TessNumPrims(t),
            !.m_ppIndices = [v \in 0 .. 2 |-> @[v] + TessNumPrims(t)],
            !.g_nextPrims = IF TessHasWork(t) THEN @ + 1 ELSE @,
            !.g_sumNumPrims = @ + TessNumPrims(t)]

\* return HasWork(), evaluated after the update.
TessNextPrimReturn(t) == TessHasWork(TessNextPrim(t))

\* Whether the switch of the constructor ends in its default branch, the
\* SWR_ASSERT(0, "Invalid binTopology ...").
TessCtorAsserts(in_binTopology) ==
  CASE in_binTopology = "TOP_POINT_LIST" -> FALSE
    [] in_binTopology = "TOP_LINE_LIST" -> FALSE
    [] in_binTopology = "TOP_TRIANGLE_LIST" -> FALSE
    [] OTHER -> TRUE

\* GetSimdVector(index, slot): SWR_ASSERT(0, ...), then a static junk vector
\* is returned.
TessGetSimdVector(t) == [obj |-> t, asserted |-> TRUE]

\* GetNextVsOutput(): SWR_ASSERT(0, ...), then a static junk vertex.
TessGetNextVsOutput(t) == [obj |-> t, asserted |-> TRUE]

\* GetNextStreamOutput(): SWR_ASSERT(0, ...), then false.
TessGetNextStreamOutput(t) == [obj |-> t, asserted |-> TRUE]

\* GetNextVsIndices(): SWR_ASSERT(0, ...), then a static junk mask.
TessGetNextVsIndices(t) == [obj |-> t, asserted |-> TRUE]

\* Mutant of TessReset: the primitives are dropped without an assertion.
TessReset_Silent(t) == [obj |-> [t EXCEPT !.m_numPrims = 0], asserted |-> FALSE]

\* Reset() { SWR_ASSERT(0); }
TessReset(t) == [obj |-> t, asserted |-> TRUE]

-----------------------------------------------------------------------------
(* PA_STATE_OPT *)

\* The counters of PA_STATE_OPT are uint32_t and wrap around.  The model keeps
\* the wrap-around at a word of UintBits bits.
UintBits == 3

UintMod == 2 ^ UintBits

\* The value a uint32_t expression holds.
Uint(x) == x % UintMod

\* Values an uninitialised word of PA_STATE_OPT may hold: the constructor
\* leaves the staged fields unwritten.
OptIndeterminate == {0, UintMod - 1}

\* The topology state functions (PFN_PA_FUNC) a draw moves through, and the
\* single-primitive function that goes with each.
PaFuncs == {"PaFunc0", "PaFunc1"}

PaSingleFunc(f) == IF f = "PaFunc0" THEN "PaSingleFunc0" ELSE "PaSingleFunc1"

\* The numPrimsIncrement arguments the topology functions stage: nothing, a
\* full batch, or half a batch for the topologies of two vertices per segment.
StagedIncrements == {0, W \div 2, W}

\* The object the constructor leaves behind: the fields Reset() writes hold
\* what Reset() writes, numPrims the argument; junk is the content of the
\* staged fields, which are written by SetNextState only.
PA_STATE_OPT(in_numPrims, in_streamSizeInVerts, in_isStreaming, topo, junk) ==
  [ numPrims              |-> in_numPrims,
    numPrimsComplete      |-> 0,
    numSimdPrims          |-> 0,
    cur                   |-> 0,
    prev                  |-> 0,
    first                 |-> 0,
    counter               |-> 0,
    reset                 |-> FALSE,
    primIDIncr            |-> W,
    primID                |-> [i \in Lanes |-> i],
    pfnPaFunc             |-> "PaFunc0",
    pfnPaSingleFunc       |-> "indeterminate",
    pfnPaFuncReset        |-> "PaFunc0",
    pfnPaNextFunc         |-> "indeterminate",
    nextNumSimdPrims      |-> junk,
    nextNumPrimsIncrement |-> junk,
    nextReset             |-> (junk # 0),
    isStreaming           |-> in_isStreaming,
    streamSizeInVerts     |-> in_streamSizeInVerts,
    binTopology           |-> topo ]

OptHasWork(s) == IF s.numPrimsComplete < s.numPrims THEN TRUE ELSE FALSE

OptNumPrims(s) ==
  IF Uint(s.numPrimsComplete + s.nextNumPrimsIncrement) > s.numPrims
  THEN Uint(W - Uint(Uint(s.numPrimsComplete + s.nextNumPrimsIncrement) - s.numPrims))
  ELSE W

\* Mutant of SetNextState: the batch function is switched at once.
SetNextState_CommitsAtOnce(s, pfnPaNextFunc, pfnPaNextSingleFunc, numSimdPrims, numPrimsIncrement, reset) ==
  [s EXCEPT !.pfnPaFunc = pfnPaNextFunc,
            !.pfnPaNextFunc = pfnPaNextFunc,
            !.nextNumSimdPrims = numSimdPrims,
            !.nextNumPrimsIncrement = numPrimsIncrement,
            !.nextReset = reset,
            !.pfnPaSingleFunc = pfnPaNextSingleFunc]

SetNextState(s, pfnPaNextFunc, pfnPaNextSingleFunc, numSimdPrims, numPrimsIncrement, reset) ==
  [s EXCEPT !.pfnPaNextFunc = pfnPaNextFunc,
            !.nextNumSimdPrims = numSimdPrims,
            !.nextNumPrimsIncrement = numPrimsIncrement,
            !.nextReset = reset,
            !.pfnPaSingleFunc = pfnPaNextSingleFunc]

\* Mutant of OptNextPrim: the test of HasWork() after the commit is left out.
OptNextPrim_IgnoresHasWork(s) ==
  Then([s EXCEPT !.pfnPaFunc = s.pfnPaNextFunc,
                 !.numSimdPrims = s.nextNumSimdPrims,
                 !.numPrimsComplete = Uint(@ + s.nextNumPrimsIncrement),
                 !.reset = IF s.isStreaming THEN FALSE ELSE s.nextReset],
       LAMBDA a :
  Then(IF a.numSimdPrims > 0
       THEN [a EXCEPT !.numSimdPrims = @ - 1]
       ELSE [a EXCEPT !.counter = IF a.reset THEN 0 ELSE Uint(@ + 1),
                      !.reset = FALSE],
       LAMBDA b :
    [obj |-> b, ret |-> a.numSimdPrims > 0]))

\* NextPrim(): the object after and the boolean returned.
OptNextPrim(s) ==
  Then([s EXCEPT !.pfnPaFunc = s.pfnPaNextFunc,
                 !.numSimdPrims = s.nextNumSimdPrims,
                 !.numPrimsComplete = Uint(@ + s.nextNumPrimsIncrement),
                 !.reset = IF s.isStreaming THEN FALSE ELSE s.nextReset],
       LAMBDA a :
  Then(IF a.numSimdPrims > 0
       THEN [a EXCEPT !.numSimdPrims = @ - 1]
       ELSE [a EXCEPT !.counter = IF a.reset THEN 0 ELSE Uint(@ + 1),
                      !.reset = FALSE],
       LAMBDA b :
    [obj |-> b, ret |-> IF ~OptHasWork(b) THEN FALSE ELSE a.numSimdPrims > 0]))

OptReset(s) ==
  [s EXCEPT !.pfnPaFunc = s.pfnPaFuncReset,
            !.numPrimsComplete = 0,
            !.numSimdPrims = 0,
            !.cur = 0,
            !.prev = 0,
            !.first = 0,
            !.counter = 0,
            !.reset = FALSE]

\* primID + set1(startID + primIDIncr * (numPrimsComplete / KNOB_SIMD_WIDTH))
OptGetPrimID(s, startID) ==
  [i \in Lanes |-> Uint(s.primID[i] + startID + s.primIDIncr * (s.numPrimsComplete \div W))]

-----------------------------------------------------------------------------
(* PA_FACTORY *)

\* The build knob the claim of the factory is about.
KNOB_ENABLE_CUT_AWARE_PA == TRUE

\* Values of PRIMITIVE_TOPOLOGY a draw may carry: the nine the cut-aware
\* assembler implements, the triangle fan the optimized assembler keeps
\* leadingVertex and first for, and TOP_UNKNOWN.
PrimitiveTopologies == Topologies \cup {"TOP_TRIANGLE_FAN", "TOP_UNKNOWN"}

\* GetNumPrims(topology, numVerts) of the front end.
GetNumPrims(topo, numVerts) ==
  CASE topo = "TOP_POINT_LIST" -> numVerts
    [] topo = "TOP_LINE_LIST" -> numVerts \div 2
    [] topo = "TOP_LINE_STRIP" -> IF numVerts > 1 THEN numVerts - 1 ELSE 0
    [] topo = "TOP_TRIANGLE_LIST" -> numVerts \div 3
    [] topo \in {"TOP_TRIANGLE_STRIP", "TOP_TRIANGLE_FAN"} ->
         IF numVerts > 2 THEN numVerts - 2 ELSE 0
    [] topo = "TOP_LINE_LIST_ADJ" -> numVerts \div 4
    [] topo = "TOP_LISTSTRIP_ADJ" -> IF numVerts > 3 THEN numVerts - 3 ELSE 0
    [] topo = "TOP_TRI_LIST_ADJ" -> numVerts \div 6
    [] topo = "TOP_TRI_STRIP_ADJ" -> IF numVerts > 5 THEN (numVerts \div 2) - 2 ELSE 0
    [] OTHER -> 0

\* The member the constructor of the factory does not construct in place: it
\* is never returned by GetPA().
NoPaCut == PA_STATE_CUT(StreamSizeInVerts, 0, "TOP_TRIANGLE_LIST", FALSE, FALSE, 0)

NoPaOpt == PA_STATE_OPT(0, StreamSizeInVerts, FALSE, "TOP_UNKNOWN", 0)

\* The condition of the constructor under which the cut-aware assembler is
\* constructed.
CutAwareSelected(IsIndexedT, topo) ==
  /\ KNOB_ENABLE_CUT_AWARE_PA
  /\ \/ IsIndexedT /\
          (topo = "TOP_TRIANGLE_STRIP" \/ topo = "TOP_POINT_LIST" \/
           topo = "TOP_LINE_LIST" \/ topo = "TOP_LINE_STRIP" \/
           topo = "TOP_TRIANGLE_LIST" \/ topo = "TOP_LINE_LIST_ADJ" \/
           topo = "TOP_LISTSTRIP_ADJ" \/ topo = "TOP_TRI_LIST_ADJ" \/
           topo = "TOP_TRI_STRIP_ADJ")
     \/ ~IsIndexedT /\
          (topo = "TOP_LINE_LIST_ADJ" \/ topo = "TOP_LISTSTRIP_ADJ" \/
           topo = "TOP_TRI_LIST_ADJ" \/ topo = "TOP_TRI_STRIP_ADJ")

\* The factory after its constructor: topo, cutPA and the two members.  state
\* is the API state (topology, gsEnable) of the draw context.
PA_FACTORY(IsIndexedT, in_topo, numVerts, state, junk) ==
  IF CutAwareSelected(IsIndexedT, in_topo)
  THEN [ IsIndexedT |-> IsIndexedT, topo |-> in_topo, numVerts |-> numVerts,
         cutPA |-> TRUE,
         paCut |-> PA_STATE_CUT(MAX_NUM_VERTS_PER_PRIM * W, numVerts, state.topology,
                                state.gsEnable, FALSE, junk),
         paOpt |-> NoPaOpt ]
  ELSE [ IsIndexedT |-> IsIndexedT, topo |-> in_topo, numVerts |-> numVerts,
         cutPA |-> FALSE,
         paCut |-> NoPaCut,
         paOpt |-> PA_STATE_OPT(GetNumPrims(in_topo, numVerts), MAX_NUM_VERTS_PER_PRIM * W,
                                FALSE, state.topology, IF junk = 0 THEN 0 ELSE UintMod - 1) ]

-----------------------------------------------------------------------------
(* The caller *)

CountTrue(bits) == Cardinality({l \in DOMAIN bits : bits[l]})

\* The cut masks the fetch stage may write for stream batch k of a draw of n
\* vertices: bits only at vertices of the draw, at most MaxCuts in the draw.
CutMasks(k, n, used) ==
  { bits \in [Lanes -> BOOLEAN] :
      /\ \A l \in Lanes : bits[l] => k * W + l < n
      /\ used + CountTrue(bits) <= MaxCuts }

\* The state after construction, for a draw of at most maxVerts vertices and
\* processCutVerts drawn from cutVerts.
InitOver(maxVerts, cutVerts) ==
  /\ \E topo \in Topologies, n \in 0 .. maxVerts, pcv \in cutVerts, junk \in Indeterminate :
       \E gs \in (IF topo \in AdjTopologies THEN BOOLEAN ELSE {FALSE}) :
         paCut = PA_STATE_CUT(StreamSizeInVerts, n, topo, gs, pcv, junk)
  /\ vertexStore = [b \in 0 .. (NumBatches - 1) |-> -1]
  /\ g_fed = 0
  /\ g_numCuts = 0
  /\ g_retires = 0

TessTopologies == {"TOP_POINT_LIST", "TOP_LINE_LIST", "TOP_TRIANGLE_LIST"}

\* Index arrays the tessellator may supply for numPrims primitives over
\* numVertices vertices: entry i of the array of corner v is
\* (a * i + b * v + k) % numVertices; the arrays of unused corners are empty.
TessIndexArrays(numVertices, numPrims, vertsPerPrim) ==
  { [v \in 0 .. 2 |->
       [i \in 0 .. ((IF v < vertsPerPrim THEN numPrims ELSE 0) - 1) |->
          (a * i + b * v + k) % numVertices]] :
    a \in 0 .. 2, b \in 0 .. 1, k \in 0 .. 1 }

\* The caller's verts[] before its first Assemble.
NoVerts == << >>

\* A tessellation assembler with work, over its index arrays.
TessOver(maxPrims) ==
  /\ \E topo \in TessTopologies, n \in 1 .. maxPrims, stride \in 1 .. MaxStride,
        numAttributes \in 1 .. KNOB_NUM_ATTRIBUTES :
       /\ paTess = PA_TESS(stride, numAttributes, n, topo)
       /\ tessIndices \in TessIndexArrays(stride * W, n, paTess.m_numVertsPerPrim)
  /\ tessOut = [ret |-> FALSE, verts |-> NoVerts]

\* A tessellation assembler constructed over no primitives.
TessIdle ==
  /\ paTess = PA_TESS(1, 1, 0, "TOP_TRIANGLE_LIST")
  /\ tessIndices = [v \in 0 .. 2 |-> << >>]
  /\ tessOut = [ret |-> FALSE, verts |-> NoVerts]

\* The caller is not in the driver loop: it calls the operations in any order.
NoDriver == [pc |-> "any"]

\* No call of an unimplemented operation yet.
NoCall == [op |-> "none", asserted |-> FALSE, unchanged |-> TRUE]

\* The assembler under study was constructed directly: no factory, no
\* optimized assembler at work.
OptIdle ==
  /\ paOpt = NoPaOpt
  /\ factory = [IsIndexedT |-> FALSE, topo |-> "TOP_UNKNOWN", numVerts |-> 0, cutPA |-> FALSE]
  /\ g_call = NoCall
  /\ driver = NoDriver

\* A draw through the cut-aware assembler.
Init == InitOver(MaxVerts, BOOLEAN) /\ TessIdle /\ OptIdle

\* The assembler as PA_FACTORY builds it: processCutVerts = false.
InitFactory == InitOver(MaxVertsGuarded, {FALSE}) /\ TessIdle /\ OptIdle

\* Domain-shader output through the tessellation assembler; the cut-aware
\* assembler holds an empty draw.
InitTess ==
  /\ paCut = PA_STATE_CUT(StreamSizeInVerts, 0, "TOP_TRIANGLE_LIST", FALSE, FALSE, 0)
  /\ vertexStore = [b \in 0 .. (NumBatches - 1) |-> -1]
  /\ g_fed = 0
  /\ g_numCuts = 0
  /\ g_retires = 0
  /\ TessOver(MaxTessPrims)
  /\ OptIdle

InitBoth == Init \/ InitTess

\* The caller takes the mask slot (GetNextVsIndices) and the vertex slot
\* (GetNextVsOutput) of the batch at headVertex and writes the next stream
\* batch and its cut mask there, as long as the stream has a batch left.
FeedBatch(guarded) ==
  /\ g_fed * W < paCut.numVertsToAssemble
  /\ guarded => ~IsVertexStoreFull(paCut)
  /\ \E bits \in CutMasks(g_fed, paCut.numVertsToAssemble, g_numCuts) :
       LET vertexIndex == paCut.headVertex \div W IN
       /\ paCut' = GetNextVsOutput([paCut EXCEPT !.pCutIndices[vertexIndex] = bits])
       /\ vertexStore' = [vertexStore EXCEPT ![vertexIndex] = g_fed]
       /\ g_numCuts' = g_numCuts + CountTrue(bits)
  /\ g_fed' = g_fed + 1
  /\ UNCHANGED <<g_retires, tessVars, optVars, g_call, driver>>

\* Assemble(slot, result): the result is AssembleResult of the object left.
DoAssemble ==
  /\ \E junk3 \in Indeterminate : paCut' = Assemble(paCut, junk3)
  /\ UNCHANGED <<vertexStore, g_fed, g_numCuts, g_retires, tessVars, optVars, g_call, driver>>

\* Whether NextPrim() retires the batch (calls Advance).
Retires(s) == s.numPrimsAssembled = W \/ s.numRemainingVerts <= 0

\* NextPrim(); history: g_retiredPrims counts the primitives written before
\* the last retire.
DoNextPrim ==
  /\ Retires(paCut) => g_retires < MaxRetires
  /\ paCut' = [NextPrim(paCut) EXCEPT !.g_retiredPrims =
                  IF Retires(paCut) THEN Len(paCut.g_emitted) ELSE @]
  /\ g_retires' = IF Retires(paCut) THEN g_retires + 1 ELSE g_retires
  /\ UNCHANGED <<vertexStore, g_fed, g_numCuts, tessVars, optVars, g_call, driver>>

Next == FeedBatch(FALSE) \/ DoAssemble \/ DoNextPrim

Spec == Init /\ [][Next]_vars

\* PA_TESS::Assemble(slot, verts) for an attribute slot of the object; junk is
\* what the index words past the end of the arrays hold.
DoTessAssemble ==
  /\ \E slot \in 0 .. (paTess.m_numAttributes - 1), junk \in Indeterminate :
       \E r \in {TessAssemble(paTess, tessIndices, slot, junk, tessOut.verts)} :
         /\ paTess' = r.obj
         /\ tessOut' = [ret |-> r.ret, verts |-> r.verts]
  /\ UNCHANGED <<tessIndices, cutVars, optVars, g_call, driver>>

\* PA_TESS::NextPrim()
DoTessNextPrim ==
  /\ paTess' = TessNextPrim(paTess)
  /\ UNCHANGED <<tessIndices, tessOut, cutVars, optVars, g_call, driver>>

NextTess == DoTessAssemble \/ DoTessNextPrim

SpecTess == InitTess /\ [][NextTess]_vars

\* Either assembler at work, every operation of both.
NextBoth == Next \/ NextTess

SpecBoth == InitBoth /\ [][NextBoth]_vars

\* The caller that feeds only when IsVertexStoreFull() is false.
NextGuarded == FeedBatch(TRUE) \/ DoAssemble \/ DoNextPrim

\* The operations a variant does not implement.
Unimplemented ==
  { "PA_STATE_CUT::GetSimdVector", "PA_TESS::GetSimdVector", "PA_TESS::GetNextVsOutput",
    "PA_TESS::GetNextStreamOutput", "PA_TESS::GetNextVsIndices", "PA_TESS::Reset" }

\* The call of the unimplemented operation op on the two objects.
CallUnimplemented(op, s, t) ==
  CASE op = "PA_STATE_CUT::GetSimdVector" ->
         [cut |-> GetSimdVector(s).obj, tess |-> t, asserted |-> GetSimdVector(s).asserted]
    [] op = "PA_TESS::GetSimdVector" ->
         [cut |-> s, tess |-> TessGetSimdVector(t).obj,
          asserted |-> TessGetSimdVector(t).asserted]
    [] op = "PA_TESS::GetNextVsOutput" ->
         [cut |-> s, tess |-> TessGetNextVsOutput(t).obj,
          asserted |-> TessGetNextVsOutput(t).asserted]
    [] op = "PA_TESS::GetNextStreamOutput" ->
         [cut |-> s, tess |-> TessGetNextStreamOutput(t).obj,
          asserted |-> TessGetNextStreamOutput(t).asserted]
    [] op = "PA_TESS::GetNextVsIndices" ->
         [cut |-> s, tess |-> TessGetNextVsIndices(t).obj,
          asserted |-> TessGetNextVsIndices(t).asserted]
    [] op = "PA_TESS::Reset" ->
         [cut |-> s, tess |-> TessReset(t).obj, asserted |-> TessReset(t).asserted]

\* A call of an unimplemented operation; g_call notes the operation, whether
\* it reached a failing assertion and whether it left both objects as they were.
DoUnimplemented ==
  /\ \E op \in Unimplemented :
       \E r \in {CallUnimplemented(op, paCut, paTess)} :
         /\ paCut' = r.cut
         /\ paTess' = r.tess
         /\ g_call' = [op |-> op, asserted |-> r.asserted,
                       unchanged |-> (r.cut = paCut /\ r.tess = paTess)]
  /\ UNCHANGED <<vertexStore, g_fed, g_numCuts, g_retires, tessIndices, tessOut, optVars, driver>>

\* Topologies the tessellation assembler may be constructed with.
TessCtorTopologies == TessTopologies \cup {"TOP_TRIANGLE_STRIP", "TOP_UNKNOWN"}

\* Either assembler constructed, the tessellation assembler with any
\* topology; g_call notes what its constructor did.
InitUnimplemented ==
  \/ InitOver(MaxDrawVerts, BOOLEAN) /\ TessIdle /\ OptIdle
  \/ /\ paCut = NoPaCut
     /\ vertexStore = [b \in 0 .. (NumBatches - 1) |-> -1]
     /\ g_fed = 0
     /\ g_numCuts = 0
     /\ g_retires = 0
     /\ \E topo \in TessCtorTopologies, n \in 1 .. MaxTessPrims, stride \in 1 .. MaxStride :
          /\ paTess = PA_TESS(stride, 1, n, topo)
          /\ tessIndices \in TessIndexArrays(stride * W, n, paTess.m_numVertsPerPrim)
          /\ g_call = [op |-> "PA_TESS::PA_TESS", asserted |-> TessCtorAsserts(topo),
                       unchanged |-> TRUE]
     /\ driver = NoDriver
     /\ tessOut = [ret |-> FALSE, verts |-> NoVerts]
     /\ paOpt = NoPaOpt
     /\ factory = [IsIndexedT |-> FALSE, topo |-> "TOP_UNKNOWN", numVerts |-> 0,
                   cutPA |-> FALSE]

NextUnimplemented == NextBoth \/ DoUnimplemented

SpecUnimplemented == InitUnimplemented /\ [][NextUnimplemented]_vars

\* Reset(); the caller starts the draw over, and so does the history.
DoReset ==
  /\ paCut.g_resets < MaxResets
  /\ paCut' = [Reset(paCut) EXCEPT !.g_resets = @ + 1,
                                   !.g_ord = [p \in RingPos |-> -1],
                                   !.g_emitted = << >>,
                                   !.g_runStart = 0,
                                   !.g_cutOrds = {},
                                   !.g_restartOk = TRUE,
                                   !.g_retiredPrims = 0]
  /\ g_fed' = 0
  /\ g_numCuts' = 0
  /\ g_retires' = 0
  /\ UNCHANGED <<vertexStore, tessVars, optVars, g_call, driver>>

InitReset == InitOver(MaxResetVerts, BOOLEAN) /\ TessIdle /\ OptIdle

NextReset == FeedBatch(FALSE) \/ DoAssemble \/ DoNextPrim \/ DoReset

SpecReset == InitReset /\ [][NextReset]_vars

\* GetNextStreamOutput()
DoStreamOutput ==
  /\ paCut.headVertex + W <= MaxStreamLaps * paCut.numVerts
  /\ paCut' = GetNextStreamOutput(paCut)
  /\ UNCHANGED <<vertexStore, g_fed, g_numCuts, g_retires, tessVars, optVars, g_call, driver>>

\* The caller's feed while headVertex is a ring position.
FeedInside ==
  /\ paCut.headVertex < paCut.numVerts
  /\ FeedBatch(FALSE)

\* The caller's feed when headVertex is not a ring position: the mask slot
\* and the vertex slot handed out lie past the caller's buffers, so what the
\* caller writes lands in neither the cut masks nor the vertex store.
FeedOutside ==
  /\ paCut.headVertex >= paCut.numVerts
  /\ g_fed * W < paCut.numVertsToAssemble
  /\ paCut' = GetNextVsOutput(paCut)
  /\ g_fed' = g_fed + 1
  /\ UNCHANGED <<vertexStore, g_numCuts, g_retires, tessVars, optVars, g_call, driver>>

\* Every operation of the cut-aware assembler that moves a ring cursor.
NextStream ==
  FeedInside \/ FeedOutside \/ DoStreamOutput \/ DoAssemble \/ DoNextPrim \/ DoReset

InitStream == InitOver(MaxStreamVerts, {FALSE}) /\ TessIdle /\ OptIdle

SpecStream == InitStream /\ [][NextStream]_vars

\* The driver loop over a draw whose cut vertices are cuts: while HasWork(),
\* take the mask slot and the vertex slot and write the next stream batch,
\* call Assemble and, if it returned true, take the primitives and call
\* NextPrim once.  d holds the
\* object, the vertex store, the batches fed and what the caller observed:
\* per Assemble its boolean and, when true, NumPrims() and the vertices gathered
\* for the lanes below it.  fuel bounds the iterations.
RECURSIVE DriverLoop(_, _, _, _)
DriverLoop(d, cuts, junk3, fuel) ==
  IF fuel = 0 \/ ~HasWork(d.pa) THEN d
  ELSE
    Then([d EXCEPT
            !.pa = GetNextVsOutput(
                     [d.pa EXCEPT !.pCutIndices[d.pa.headVertex \div W] =
                                     [l \in Lanes |-> (d.fed * W + l) \in cuts]]),
            !.store[d.pa.headVertex \div W] = d.fed,
            !.fed = @ + 1], LAMBDA a :
    Then(Assemble(a.pa, junk3), LAMBDA t :
      IF AssembleReturn(t)
      THEN DriverLoop(
             [a EXCEPT !.pa = NextPrim(t),
                       !.obs = Append(@,
                         [ret |-> TRUE, numPrims |-> NumPrims(t),
                          prims |-> [l \in {k \in Lanes : k < NumPrims(t)} |->
                                       [v \in 0 .. (t.vertsPerPrim - 1) |->
                                          AssembleResult(t, a.store, 0)[v][0][l]]]])],
             cuts, junk3, fuel - 1)
      ELSE DriverLoop([a EXCEPT !.pa = t, !.obs = Append(@, [ret |-> FALSE])],
                      cuts, junk3, fuel - 1)))

\* The driver loop as steps of the caller: driver.pc is the call it makes next.
InitDriver ==
  /\ InitOver(MaxVerts, BOOLEAN)
  /\ TessIdle
  /\ paOpt = NoPaOpt
  /\ factory = [IsIndexedT |-> FALSE, topo |-> "TOP_UNKNOWN", numVerts |-> 0, cutPA |-> FALSE]
  /\ g_call = NoCall
  /\ driver = [pc |-> "feed"]

\* while (HasWork()): GetNextVsIndices(), GetNextVsOutput(), one batch written.
DriverFeed ==
  /\ driver.pc = "feed"
  /\ HasWork(paCut)
  /\ g_fed < 2 * paCut.numVertsToAssemble + 2 * NumBatches
  /\ \E bits \in CutMasks(g_fed, paCut.numVertsToAssemble, g_numCuts) :
       LET vertexIndex == paCut.headVertex \div W IN
       /\ paCut' = GetNextVsOutput([paCut EXCEPT !.pCutIndices[vertexIndex] = bits])
       /\ vertexStore' = [vertexStore EXCEPT ![vertexIndex] = g_fed]
       /\ g_numCuts' = g_numCuts + CountTrue(bits)
  /\ g_fed' = g_fed + 1
  /\ driver' = [pc |-> "assemble"]
  /\ UNCHANGED <<g_retires, tessVars, optVars, g_call>>

\* Assemble(slot, result); NextPrim follows if it returned true.
DriverAssemble ==
  /\ driver.pc = "assemble"
  /\ \E junk3 \in Indeterminate :
       \E t \in {Assemble(paCut, junk3)} :
         /\ paCut' = t
         /\ driver' = [pc |-> IF AssembleReturn(t) THEN "next" ELSE "feed"]
  /\ UNCHANGED <<vertexStore, g_fed, g_numCuts, g_retires, tessVars, optVars, g_call>>

\* NextPrim(), once.
DriverNextPrim ==
  /\ driver.pc = "next"
  /\ paCut' = [NextPrim(paCut) EXCEPT !.g_retiredPrims =
                  IF Retires(paCut) THEN Len(paCut.g_emitted) ELSE @]
  /\ g_retires' = IF Retires(paCut) THEN g_retires + 1 ELSE g_retires
  /\ driver' = [pc |-> "feed"]
  /\ UNCHANGED <<vertexStore, g_fed, g_numCuts, tessVars, optVars, g_call>>

NextDriver == DriverFeed \/ DriverAssemble \/ DriverNextPrim

SpecDriver == InitDriver /\ [][NextDriver]_vars

\* The driver loop is sequential code: as long as a call is due it is made.
SpecDriverFair == SpecDriver /\ WF_vars(NextDriver)

\* The smallest in_numVerts whose int32_t value has the sign bit set.
SignBitVerts == 2 ^ (Int32Bits - 1)

\* Draws of every size class under the driver loop: the small draws of
\* InitDriver and a draw of SignBitVerts vertices.
InitAnyDraw ==
  /\ \E topo \in Topologies, n \in (0 .. MaxVerts) \cup {SignBitVerts},
        pcv \in BOOLEAN, junk \in Indeterminate :
       \E gs \in (IF topo \in AdjTopologies THEN BOOLEAN ELSE {FALSE}) :
         paCut = PA_STATE_CUT(StreamSizeInVerts, n, topo, gs, pcv, junk)
  /\ vertexStore = [b \in 0 .. (NumBatches - 1) |-> -1]
  /\ g_fed = 0
  /\ g_numCuts = 0
  /\ g_retires = 0
  /\ TessIdle
  /\ paOpt = NoPaOpt
  /\ factory = [IsIndexedT |-> FALSE, topo |-> "TOP_UNKNOWN", numVerts |-> 0, cutPA |-> FALSE]
  /\ g_call = NoCall
  /\ driver = [pc |-> "feed"]

SpecAnyDraw == InitAnyDraw /\ [][NextDriver]_vars /\ WF_vars(NextDriver)

\* The driver loop of a caller that asks IsVertexStoreFull() first: a batch is
\* fed only when the answer is false.
GuardedFeed ==
  /\ ~IsVertexStoreFull(paCut)
  /\ DriverFeed

\* The answer is true: no batch is fed, Assemble is called on what is there.
GuardedWait ==
  /\ driver.pc = "feed"
  /\ HasWork(paCut)
  /\ IsVertexStoreFull(paCut)
  /\ driver' = [pc |-> "assemble"]
  /\ UNCHANGED <<cutVars, tessVars, optVars, g_call>>

NextGuardedLoop == GuardedFeed \/ GuardedWait \/ DriverAssemble \/ DriverNextPrim

InitGuardedLoop ==
  /\ InitOver(MaxVertsGuarded, {FALSE})
  /\ TessIdle
  /\ paOpt = NoPaOpt
  /\ factory = [IsIndexedT |-> FALSE, topo |-> "TOP_UNKNOWN", numVerts |-> 0, cutPA |-> FALSE]
  /\ g_call = NoCall
  /\ driver = [pc |-> "feed"]

SpecGuardedLoop ==
  InitGuardedLoop /\ [][NextGuardedLoop]_vars /\ WF_vars(NextGuardedLoop)

\* Long triangle strips with adjacency under the driver loop.
InitStripAdj ==
  /\ \E n \in 0 .. MaxStripVerts, gs \in BOOLEAN, pcv \in BOOLEAN, junk \in Indeterminate :
       paCut = PA_STATE_CUT(StreamSizeInVerts, n, "TOP_TRI_STRIP_ADJ", gs, pcv, junk)
  /\ vertexStore = [b \in 0 .. (NumBatches - 1) |-> -1]
  /\ g_fed = 0
  /\ g_numCuts = 0
  /\ g_retires = 0
  /\ TessIdle
  /\ paOpt = NoPaOpt
  /\ factory = [IsIndexedT |-> FALSE, topo |-> "TOP_UNKNOWN", numVerts |-> 0, cutPA |-> FALSE]
  /\ g_call = NoCall
  /\ driver = [pc |-> "feed"]

SpecStripAdj == InitStripAdj /\ [][NextDriver]_vars

\* Triangle lists with adjacency of more vertices than the ring holds, under
\* the driver loop, constructed as PA_FACTORY constructs them.
InitListAdj ==
  /\ \E n \in 0 .. MaxListVerts, gs \in BOOLEAN, junk \in Indeterminate :
       paCut = PA_STATE_CUT(StreamSizeInVerts, n, "TOP_TRI_LIST_ADJ", gs, FALSE, junk)
  /\ vertexStore = [b \in 0 .. (NumBatches - 1) |-> -1]
  /\ g_fed = 0
  /\ g_numCuts = 0
  /\ g_retires = 0
  /\ TessIdle
  /\ paOpt = NoPaOpt
  /\ factory = [IsIndexedT |-> FALSE, topo |-> "TOP_UNKNOWN", numVerts |-> 0, cutPA |-> FALSE]
  /\ g_call = NoCall
  /\ driver = [pc |-> "feed"]

SpecListAdj == InitListAdj /\ [][NextDriver]_vars

\* The sets of at most MaxCuts cut vertices of a draw of n vertices.
CutSets(n) == {c \in SUBSET (0 .. (n - 1)) : Cardinality(c) <= MaxCuts}

\* Iterations the driver loop is given for a draw of n vertices.
DriverFuel(n) == 2 * n + 2 * NumBatches

\* What the caller of the driver loop sees of a draw through the object s over
\* the store: the booleans, counts and gathered vertices, and the primitives.
Replay(s, store, cuts, junk3) ==
  Then(DriverLoop([pa |-> s, store |-> store, fed |-> 0, obs |-> << >>],
                  cuts, junk3, DriverFuel(s.numVertsToAssemble)), LAMBDA d :
    [obs |-> d.obs, emitted |-> d.pa.g_emitted, done |-> ~HasWork(d.pa)])

SpecGuarded == InitFactory /\ [][NextGuarded]_vars

\* The optimized assembler constructed directly over a draw of any number of
\* primitives the counter can hold; the other assemblers hold empty draws.
InitOpt ==
  /\ \E n \in 0 .. (UintMod - 1), streaming \in BOOLEAN, junk \in OptIndeterminate :
       paOpt = PA_STATE_OPT(n, StreamSizeInVerts, streaming, "TOP_TRIANGLE_LIST", junk)
  /\ factory = [IsIndexedT |-> FALSE, topo |-> "TOP_UNKNOWN", numVerts |-> 0, cutPA |-> FALSE]
  /\ g_call = NoCall
  /\ driver = NoDriver
  /\ paCut = NoPaCut
  /\ vertexStore = [b \in 0 .. (NumBatches - 1) |-> -1]
  /\ g_fed = 0
  /\ g_numCuts = 0
  /\ g_retires = 0
  /\ TessIdle

\* PA_STATE_OPT::Assemble(slot, verts): the topology function pfnPaFunc points
\* at gathers into verts and stages the next state with SetNextPaState.
DoOptAssemble ==
  /\ paOpt.pfnPaFunc \in PaFuncs
  /\ \E f \in PaFuncs, numSimdPrims \in 0 .. 1, numPrimsIncrement \in StagedIncrements,
        reset \in BOOLEAN :
       paOpt' = SetNextState(paOpt, f, PaSingleFunc(f), numSimdPrims, numPrimsIncrement, reset)
  /\ UNCHANGED <<cutVars, tessVars, factory, g_call, driver>>

\* PA_STATE_OPT::NextPrim()
DoOptNextPrim ==
  /\ paOpt' = OptNextPrim(paOpt).obj
  /\ UNCHANGED <<cutVars, tessVars, factory, g_call, driver>>

\* PA_STATE_OPT::Reset()
DoOptReset ==
  /\ paOpt' = OptReset(paOpt)
  /\ UNCHANGED <<cutVars, tessVars, factory, g_call, driver>>

NextOpt == DoOptAssemble \/ DoOptNextPrim \/ DoOptReset

SpecOpt == InitOpt /\ [][NextOpt]_vars

\* The factory after its constructor, for an indexed or non-indexed draw of
\* any topology; the API state carries the topology of the draw.
InitDraw ==
  /\ \E IsIndexedT \in BOOLEAN, in_topo \in PrimitiveTopologies, numVerts \in 0 .. MaxDrawVerts,
        junk \in Indeterminate :
       \E gs \in (IF in_topo \in AdjTopologies THEN BOOLEAN ELSE {FALSE}) :
         \E f \in {PA_FACTORY(IsIndexedT, in_topo, numVerts,
                               [topology |-> in_topo, gsEnable |-> gs], junk)} :
           /\ factory = [IsIndexedT |-> f.IsIndexedT, topo |-> f.topo,
                         numVerts |-> f.numVerts, cutPA |-> f.cutPA]
           /\ paCut = f.paCut
           /\ paOpt = f.paOpt
  /\ vertexStore = [b \in 0 .. (NumBatches - 1) |-> -1]
  /\ g_fed = 0
  /\ g_numCuts = 0
  /\ g_retires = 0
  /\ g_call = NoCall
  /\ driver = NoDriver
  /\ TessIdle

\* The operations of the assembler GetPA() returns.
NextDraw == (factory.cutPA /\ Next) \/ (~factory.cutPA /\ NextOpt)

SpecDraw == InitDraw /\ [][NextDraw]_vars

\* The factory routed to the cut-aware assembler, over a draw context whose
\* API state holds any topology.
InitRouted ==
  /\ \E IsIndexedT \in BOOLEAN, in_topo \in PrimitiveTopologies,
        topology \in PrimitiveTopologies, numVerts \in 0 .. MaxDrawVerts,
        junk \in Indeterminate :
       \E gs \in (IF topology \in AdjTopologies THEN BOOLEAN ELSE {FALSE}) :
         \E f \in {PA_FACTORY(IsIndexedT, in_topo, numVerts,
                               [topology |-> topology, gsEnable |-> gs], junk)} :
           /\ CutAwareSelected(IsIndexedT, in_topo)
           /\ factory = [IsIndexedT |-> f.IsIndexedT, topo |-> f.topo,
                         numVerts |-> f.numVerts, cutPA |-> f.cutPA]
           /\ paCut = f.paCut
           /\ paOpt = f.paOpt
  /\ vertexStore = [b \in 0 .. (NumBatches - 1) |-> -1]
  /\ g_fed = 0
  /\ g_numCuts = 0
  /\ g_retires = 0
  /\ g_call = NoCall
  /\ driver = NoDriver
  /\ TessIdle

\* The operations of the assembler GetPA() returns.  An assembler whose
\* constructor ran into the assertion is not operated: its handler pointer
\* was never assigned.
NextRouted == paCut.pfnPa # Unassigned /\ Next

SpecRouted == InitRouted /\ [][NextRouted]_vars

-----------------------------------------------------------------------------
(* Properties *)

Done(s) == ~HasWork(s)

\* Number of draw vertices ProcessVerts has visited.
Processed(s) == s.numVertsToAssemble - s.numRemainingVerts

\* C1: with processCutVerts = false, every primitive written to the gather
\* table is made of vertices processed since the most recent cut (or the start
\* of the draw) and of no cut vertex, and every vertex that directly follows a
\* cut vertex is processed with fresh topology state; a triangle strip of four
\* vertices with vertex 2 cut emits nothing and holds vertex 3 in window slot 0.
C1_NoPrimitiveSpansACut ==
  ~paCut.processCutVerts =>
    /\ \A k \in 1 .. Len(paCut.g_emitted) :
         \A v \in DOMAIN paCut.g_emitted[k].verts :
           /\ paCut.g_emitted[k].verts[v] >= paCut.g_emitted[k].run
           /\ paCut.g_emitted[k].verts[v] \notin paCut.g_cutOrds
    /\ paCut.g_restartOk
    /\ ( /\ paCut.binTopology = "TOP_TRIANGLE_STRIP"
         /\ paCut.numVertsToAssemble = 4
         /\ paCut.numRemainingVerts = 0
         /\ paCut.g_cutOrds = {2} )
       => /\ paCut.g_emitted = << >>
          /\ paCut.curIndex = 1
          /\ OrdOf(paCut, paCut.vert[0]) = 3

\* A draw with a cut in which primitives were written on both sides of it.
C1_Witness ==
  /\ ~paCut.processCutVerts
  /\ paCut.g_cutOrds # {}
  /\ \E j, k \in 1 .. Len(paCut.g_emitted) :
       paCut.g_emitted[j].run = 0 /\ paCut.g_emitted[k].run > 0

\* Vertices of the stream one primitive of a list topology consumes, and
\* the vertices-per-primitive of the strip of the same family.
VerticesPerPrimitive(topo) ==
  CASE topo = "TOP_POINT_LIST" -> 1
    [] topo \in {"TOP_LINE_LIST", "TOP_LINE_STRIP"} -> 2
    [] topo \in {"TOP_TRIANGLE_LIST", "TOP_TRIANGLE_STRIP"} -> 3
    [] topo \in {"TOP_LINE_LIST_ADJ", "TOP_LISTSTRIP_ADJ"} -> 4
    [] topo \in {"TOP_TRI_LIST_ADJ", "TOP_TRI_STRIP_ADJ"} -> 6

ListTopologies ==
  { "TOP_POINT_LIST", "TOP_LINE_LIST", "TOP_TRIANGLE_LIST", "TOP_LINE_LIST_ADJ",
    "TOP_TRI_LIST_ADJ" }

\* The vertex roles of the j-th primitive of a list topology: all vertices of
\* the j-th group, or its core vertices when the geometry stage is disabled.
ListPrimitive(topo, gsEnabled, j) ==
  LET k == VerticesPerPrimitive(topo) IN
  CASE topo = "TOP_LINE_LIST_ADJ" /\ ~gsEnabled -> [v \in 0 .. 1 |-> k * j + 1 + v]
    [] topo = "TOP_TRI_LIST_ADJ" /\ ~gsEnabled -> [v \in 0 .. 2 |-> k * j + 2 * v]
    [] OTHER -> [v \in 0 .. (k - 1) |-> k * j + v]

\* The draw is over and no cut bit was set in its index stream.
CutFreeDrawDone ==
  g_numCuts = 0 /\ paCut.g_cutOrds = {} /\ Done(paCut)

\* C2 as claimed: for every supported topology a cut-free draw of
\* verticesPerPrimitive(topology) x K vertices yields exactly K primitives.
C2_AsClaimed ==
  LET k == VerticesPerPrimitive(paCut.binTopology) IN
  (CutFreeDrawDone /\ paCut.numVertsToAssemble % k = 0)
    => Len(paCut.g_emitted) = paCut.numVertsToAssemble \div k

\* C2 amended: for every list topology (and for a strip topology when K <= 1)
\* a cut-free draw of verticesPerPrimitive(topology) x K vertices yields
\* exactly K primitives over the whole draw, and the j-th primitive of a list
\* topology references the vertices of the j-th group in their topology roles;
\* for a triangle list it is (3j, 3j+1, 3j+2).
C2_ListsYieldKPrimitives ==
  LET k == VerticesPerPrimitive(paCut.binTopology)
      n == paCut.numVertsToAssemble
  IN  (CutFreeDrawDone /\ n % k = 0 /\ (paCut.binTopology \in ListTopologies \/ n \div k <= 1))
        => /\ Len(paCut.g_emitted) = n \div k
           /\ paCut.binTopology \in ListTopologies =>
                \A j \in 1 .. Len(paCut.g_emitted) :
                  paCut.g_emitted[j].verts =
                    ListPrimitive(paCut.binTopology, paCut.gsEnabled, j - 1)
           /\ paCut.binTopology = "TOP_TRIANGLE_LIST" =>
                \A j \in 1 .. Len(paCut.g_emitted) :
                  paCut.g_emitted[j].verts = [v \in 0 .. 2 |-> 3 * (j - 1) + v]

\* A finished cut-free triangle list of three primitives, one batch retired.
C2_Witness ==
  /\ CutFreeDrawDone
  /\ paCut.binTopology = "TOP_TRIANGLE_LIST"
  /\ paCut.numVertsToAssemble = 9
  /\ Len(paCut.g_emitted) = 3
  /\ g_retires >= 1

\* C3: in a triangle strip, as long as no cut was met, the i-th primitive
\* written is (i, i+1, i+2) for even i and (i, i+2, i+1) for odd i, and the
\* parity it was written under is un-reversed for even i and reversed for odd
\* i, wherever the batches were fed and retired.
C3_TriStripWinding ==
  (paCut.binTopology = "TOP_TRIANGLE_STRIP" /\ paCut.g_cutOrds = {})
    => \A k \in 1 .. Len(paCut.g_emitted) :
         LET i == k - 1 IN
         /\ paCut.g_emitted[k].rev = (i % 2 = 1)
         /\ paCut.g_emitted[k].verts =
              IF i % 2 = 0 THEN [v \in 0 .. 2 |-> i + v]
              ELSE (0 :> i) @@ (1 :> i + 2) @@ (2 :> i + 1)

\* A cut-free triangle strip with four primitives written across a retire.
C3_Witness ==
  /\ paCut.binTopology = "TOP_TRIANGLE_STRIP"
  /\ paCut.g_cutOrds = {}
  /\ Len(paCut.g_emitted) >= 4
  /\ paCut.g_retiredPrims >= W

\* C4: in a triangle strip with adjacency with the geometry stage disabled, as
\* long as no cut was met, the k-th primitive written is (2k, 2k+2, 2k+4) for
\* even k and (2k, 2k+4, 2k+2) for odd k (so the first is (0,2,4)), the parity
\* flips between consecutive primitives, and a finished cut-free strip of
\* 2(n+2) indices has written exactly n primitives, the finish step's included.
C4_TriStripAdjNoGs ==
  (paCut.pfnPa = "ProcessVertTriStripAdj<false>" /\ paCut.g_cutOrds = {})
    => /\ \A j \in 1 .. Len(paCut.g_emitted) :
            LET k == j - 1 IN
            /\ paCut.g_emitted[j].rev = (k % 2 = 1)
            /\ paCut.g_emitted[j].verts =
                 IF k % 2 = 0 THEN [v \in 0 .. 2 |-> 2 * k + 2 * v]
                 ELSE (0 :> 2 * k) @@ (1 :> 2 * k + 4) @@ (2 :> 2 * k + 2)
       /\ (CutFreeDrawDone /\ paCut.numVertsToAssemble >= 4
             /\ paCut.numVertsToAssemble % 2 = 0)
            => Len(paCut.g_emitted) = (paCut.numVertsToAssemble \div 2) - 2
       /\ (CutFreeDrawDone /\ paCut.numVertsToAssemble = 7)
            => Len(paCut.g_emitted) = 1

\* A finished cut-free strip of ten indices whose third primitive was written
\* by the finish step.
C4_Witness ==
  /\ paCut.pfnPa = "ProcessVertTriStripAdj<false>"
  /\ CutFreeDrawDone
  /\ paCut.numVertsToAssemble = 10
  /\ Len(paCut.g_emitted) = 3
  /\ paCut.g_emitted[3].finish

\* C5: numPrimsAssembled never exceeds W, no gather-table write uses a lane
\* at or beyond W, and NumPrims() equals the number of primitives written to
\* the gather table since the last batch retire.
C5_BatchNeverOverfull ==
  /\ paCut.numPrimsAssembled <= W
  /\ ~paCut.g_oob
  /\ NumPrims(paCut) = Len(paCut.g_emitted) - paCut.g_retiredPrims

\* The count half of C5 alone.
C5_NumPrimsCountsWritten ==
  NumPrims(paCut) = Len(paCut.g_emitted) - paCut.g_retiredPrims

\* The ring positions from a (inclusive) to b (exclusive), going forward.
CyclicInterval(s, a, b) ==
  {p \in 0 .. (s.numVerts - 1) : (p - a) % s.numVerts < (b - a) % s.numVerts}

\* The W ring positions GetNextVsOutput hands out for writing.
HandedOut(s) == {(s.headVertex + i) % s.numVerts : i \in Lanes}

\* Fed vertices ProcessVerts has not visited yet.
Unprocessed(s) == CyclicInterval(s, s.curVertex, s.headVertex)

\* The slots of vert[] that hold a vertex the handler will still read.  The
\* handlers fill vert[] from slot 0 up to curIndex, except
\* ProcessVertTriStripAdj, which writes vert[5] as its fourth vertex, vert[4]
\* as its fifth and vert[3] last (case 5), and whose reorder step leaves
\* slot 3 unassigned.
WindowSlots(s) ==
  IF s.pfnPa \in {"ProcessVertTriStripAdj<true>", "ProcessVertTriStripAdj<false>"}
  THEN {j \in 0 .. 2 : j < s.curIndex}
         \cup (IF s.curIndex >= 4 THEN {5} ELSE {})
         \cup (IF s.curIndex >= 5 THEN {4} ELSE {})
         \cup (IF s.curIndex >= 6 THEN {3} ELSE {})
  ELSE {j \in VertRows : j < s.curIndex}

\* Ring positions held by the live part of the topology window.
WindowRefs(s) == {s.vert[i] : i \in WindowSlots(s)}

\* The pending extra vertex of a strip with adjacency.
ExtraRef(s) == IF s.adjExtraVert # -1 THEN {s.adjExtraVert} ELSE {}

\* Ring positions in the gather-table lanes of the assembled primitives.
GatherRefs(s) ==
  {ReadIndices(s, v, l) : v \in 0 .. (s.vertsPerPrim - 1),
                          l \in {k \in Lanes : k < s.numPrimsAssembled}}

\* The ring positions still needed; the tail position counts once the ring
\* holds a vertex.
Needed(s) ==
  Unprocessed(s) \cup WindowRefs(s) \cup ExtraRef(s) \cup GatherRefs(s)
    \cup (IF s.tailVertex # s.headVertex THEN {s.tailVertex} ELSE {})

\* The caller is about to feed: the stream has a batch left and the store
\* does not report full.
FeedPermitted ==
  g_fed * W < paCut.numVertsToAssemble /\ ~IsVertexStoreFull(paCut)

\* C6 in full: when the caller feeds only while IsVertexStoreFull() is false,
\* the W ring positions handed out for writing contain no vertex that is
\* still needed: no unprocessed vertex, not the tail position, no vertex of
\* the topology window, of the pending extra vertex or of an unretired
\* primitive.
C6_StoreFullProtectsNeeded ==
  FeedPermitted => HandedOut(paCut) \cap Needed(paCut) = {}

\* C6, its first clause alone: when the caller feeds only while
\* IsVertexStoreFull() is false, the W ring positions handed out for writing
\* contain no fed vertex that ProcessVerts has not visited yet.
C6_NoUnprocessedHandedOut ==
  FeedPermitted => HandedOut(paCut) \cap Unprocessed(paCut) = {}

\* C7: every ring position held in the live part of the topology window, in
\* adjExtraVert when it is not -1 and in the gather-table lanes below
\* numPrimsAssembled lies in the cyclic ring interval from tailVertex
\* (inclusive) to curVertex (exclusive).
C7_TailIsOldestNeeded ==
  (WindowRefs(paCut) \cup ExtraRef(paCut) \cup GatherRefs(paCut))
    \subseteq CyclicInterval(paCut, paCut.tailVertex, paCut.curVertex)

\* C8: Assemble is idempotent between retires.  Cut-aware: a second Assemble
\* with no feed, NextPrim or Reset in between leaves the object the first one
\* left (cursors, counters, gather indices and offsets) and returns the same
\* boolean.  Tessellation: a second Assemble returns the same boolean and the
\* same verts[] and leaves the remaining count and index pointers alone.
C8_AssembleIdempotent ==
  /\ \A j1 \in Indeterminate, j2 \in Indeterminate :
       \A a \in {Assemble(paCut, j1)} :
         \A b \in {Assemble(a, j2)} :
           /\ b = a
           /\ AssembleReturn(b) = AssembleReturn(a)
           /\ NumPrims(b) = NumPrims(a)
  /\ \A slot \in 0 .. (paTess.m_numAttributes - 1) :
       \A j1 \in Indeterminate, j2 \in Indeterminate :
         \A r1 \in {TessAssemble(paTess, tessIndices, slot, j1, tessOut.verts)} :
           /\ r1.obj = paTess
           /\ TessAssemble(r1.obj, tessIndices, slot, j2, r1.verts) = r1

\* A cut-aware assembler after a retire, with fed vertices left to process,
\* whose next Assemble ends the draw with the finish step of a strip with
\* adjacency and computes the gather offsets.
C8_Witness ==
  /\ paCut.curVertex # paCut.headVertex
  /\ paCut.numPrimsAssembled = 0
  /\ paCut.g_retiredPrims > 0
  /\ paCut.needOffsets
  /\ \E j \in Indeterminate :
       \E a \in {Assemble(paCut, j)} :
         /\ a.numPrimsAssembled > 0
         /\ a.g_emitted[Len(a.g_emitted)].finish
         /\ AssembleReturn(a)
         /\ a.vOffsets # paCut.vOffsets

\* C9: Assemble returns false exactly when, with every fed vertex processed,
\* the batch holds fewer than W primitives and numRemainingVerts > 0; when it
\* returns true the batch holds exactly W primitives or every vertex of the
\* draw was consumed, and then the partial batch is the final one.
C9_AssembleReturnValue ==
  \A j \in Indeterminate :
    \A a \in {Assemble(paCut, j)} :
      /\ ~AssembleReturn(a) <=>
           (a.curVertex = a.headVertex /\ a.numPrimsAssembled < W
              /\ a.numRemainingVerts > 0)
      /\ AssembleReturn(a) =>
           (a.numPrimsAssembled = W \/ a.numRemainingVerts = 0)
      /\ (AssembleReturn(a) /\ a.numPrimsAssembled # W) => ~HasWork(a)

\* C10: when the tessellation Assemble(slot, out) returns true, lane i of
\* component c of out[v] is, for i < NumPrims(), component c of attribute slot
\* of the vertex the index array of corner v names at entry i, and
\* AssembleSingle(slot, i) yields the same values; for i >= NumPrims() the
\* lane is zero.
C10_TessGather ==
  \A slot \in 0 .. (paTess.m_numAttributes - 1), junk \in Indeterminate :
    \A r \in {TessAssemble(paTess, tessIndices, slot, junk, tessOut.verts)} :
      r.ret =>
        \A v \in 0 .. (paTess.m_numVertsPerPrim - 1), c \in 0 .. 3, i \in Lanes :
          IF i < TessNumPrims(paTess)
          THEN /\ r.verts[v][c][i] =
                    <<tessIndices[v][paTess.m_ppIndices[v] + i], slot, c>>
               /\ TessAssembleSingle(paTess, tessIndices, slot, i)[v][c] =
                    r.verts[v][c][i]
          ELSE r.verts[v][c][i] = ZeroFloat

\* The last, partial batch of a triangle list over two vectors of vertices
\* was assembled after a NextPrim: its last lane is zero.
C10_Witness ==
  /\ paTess.m_numVertsPerPrim = 3
  /\ paTess.m_attributeStrideInVectors = 2
  /\ paTess.m_ppIndices[2] >= W
  /\ paTess.m_numPrims \in 1 .. (W - 1)
  /\ tessOut.ret
  /\ tessOut.verts[2][3][W - 1] = ZeroFloat
  /\ tessOut.verts[2][3][0] # ZeroFloat

\* C11: in every state of the optimized assembler in which HasWork() is true
\* and the staged increment is at most W, NumPrims() equals
\* W - max(0, numPrimsComplete + nextNumPrimsIncrement - numPrims), lies
\* between 1 and W, and on the final partial batch with a full-batch increment
\* staged numPrimsComplete + NumPrims() is at most numPrims.
C11_NumPrimsOfLastBatch ==
  (OptHasWork(paOpt) /\ paOpt.nextNumPrimsIncrement <= W) =>
    LET over == paOpt.numPrimsComplete + paOpt.nextNumPrimsIncrement - paOpt.numPrims
    IN  /\ OptNumPrims(paOpt) = W - (IF over > 0 THEN over ELSE 0)
        /\ OptNumPrims(paOpt) \in 1 .. W
        /\ (paOpt.nextNumPrimsIncrement = W /\ over > 0) =>
             paOpt.numPrimsComplete + OptNumPrims(paOpt) <= paOpt.numPrims

\* The statement of C11 for the draws whose primitive count leaves room for
\* one more batch below the largest value of the counter.
C11_HoldsWithoutWrap ==
  (paOpt.numPrims + W < UintMod) => C11_NumPrimsOfLastBatch

\* C12: the factory selects the optimized assembler only for non-indexed
\* draws of a non-adjacency topology; every indexed draw, whatever its
\* topology, and every adjacency draw is given the cut-aware assembler.
C12_OptimizedOnlyWithoutIndices ==
  /\ ~factory.cutPA => (~factory.IsIndexedT /\ factory.topo \notin AdjTopologies)
  /\ (factory.IsIndexedT \/ factory.topo \in AdjTopologies) => factory.cutPA

\* The statement of C12 for the nine topologies the cut-aware assembler
\* implements.
C12_HoldsForImplementedTopologies ==
  factory.topo \in Topologies => C12_OptimizedOnlyWithoutIndices

\* The object a constructor call with the arguments of s leaves.
Fresh(s) ==
  [PA_STATE_CUT(s.numVerts, s.numVertsToAssemble, s.binTopology, s.gsEnabled,
                s.processCutVerts, 0) EXCEPT !.g_resets = s.g_resets]

\* The fields Reset() assigns.
ResetFields ==
  {"numRemainingVerts", "numPrimsAssembled", "headVertex", "tailVertex", "curVertex",
   "curIndex", "reverseWinding", "adjExtraVert", "vPrimId"}

\* The draw replayed through s gives what it gives through a fresh object.
ReplaysAsFresh(s, store) ==
  \A cuts \in CutSets(s.numVertsToAssemble), junk3 \in Indeterminate :
    Replay(s, store, cuts, junk3) =
      Replay(Fresh(s), [b \in 0 .. (NumBatches - 1) |-> -1], cuts, junk3)

\* C13 as claimed: after Reset() every field that influences later
\* operations, the needOffsets dirty flag included, equals its value right
\* after construction.
C13_AsClaimed ==
  [][paCut'.g_resets = paCut.g_resets + 1 =>
       \A f \in ResetFields \cup {"needOffsets"} : paCut'[f] = Fresh(paCut')[f]]_vars

\* C13: after any sequence of feeds, Assemble and NextPrim calls followed by
\* Reset(), numRemainingVerts, numPrimsAssembled, headVertex, tailVertex,
\* curVertex, curIndex, reverseWinding, adjExtraVert and the primitive-ID
\* vector equal their values right after construction, and the same draw
\* replayed produces the same primitives and return values as on a freshly
\* constructed assembler.
C13_ResetReplaysAsFresh ==
  [][paCut'.g_resets = paCut.g_resets + 1 =>
       /\ \A f \in ResetFields : paCut'[f] = Fresh(paCut')[f]
       /\ ReplaysAsFresh(paCut', vertexStore')]_vars

\* A draw replayed to its end after a Reset() that found the dirty flag set,
\* gather rows written and a batch retired.
C13_Witness ==
  /\ paCut.g_resets = 1
  /\ Done(paCut)
  /\ Len(paCut.g_emitted) >= 2
  /\ g_retires >= 1

\* C14: a call of an operation a variant does not implement (GetSimdVector
\* of the cut-aware assembler; GetSimdVector, GetNextVsOutput,
\* GetNextStreamOutput, GetNextVsIndices and Reset of the tessellation
\* assembler) reaches a failing assertion and modifies no assembler state, and
\* the constructor of the tessellation assembler reaches one for every
\* topology other than point list, line list and triangle list.
C14_UnimplementedAsserts ==
  /\ g_call.op \in Unimplemented => (g_call.asserted /\ g_call.unchanged)
  /\ paTess.binTopology \notin {"TOP_POINT_LIST", "TOP_LINE_LIST", "TOP_TRIANGLE_LIST"} =>
       (g_call.op \in Unimplemented \cup {"PA_TESS::PA_TESS"} /\ g_call.asserted)

\* Reset() called on a tessellation assembler in the middle of its draw.
C14_Witness ==
  /\ g_call.op = "PA_TESS::Reset"
  /\ tessOut.ret
  /\ paTess.m_numPrims > 0
  /\ paTess.m_ppIndices[0] > 0

\* The startID arguments GetPrimID is called with.
StartIDs == {0, 5}

\* The primitives written since the last retire: positions in g_emitted.
CurrentBatch == (paCut.g_retiredPrims + 1) .. Len(paCut.g_emitted)

\* C15: GetPrimID(startID) returns in lane i the value startID + i + W * k,
\* k the number of batches retired since construction; under the driver loop
\* (a batch is retired by one NextPrim after Assemble returned true) the m-th
\* primitive emitted in the draw, counted from 0, sits in a lane of the batch
\* and has the identifier startID + m.
C15_PrimitiveIdentifiers ==
  \A startID \in StartIDs :
    /\ \A i \in Lanes : GetPrimID(paCut, startID)[i] = startID + i + W * g_retires
    /\ \A j \in CurrentBatch :
         /\ paCut.g_emitted[j].lane \in Lanes
         /\ GetPrimID(paCut, startID)[paCut.g_emitted[j].lane] = startID + (j - 1)

\* The statement of C15 for the assembler as the factory builds it.
C15_HoldsWithoutCutVerts == ~paCut.processCutVerts => C15_PrimitiveIdentifiers

\* The call u = ProcessVerts() wrote exactly one primitive after its loop had
\* left t, by the finish step, and left no extra vertex pending.
FinishedOnce(t, u) ==
  /\ Len(u.g_emitted) = Len(t.g_emitted) + 1
  /\ u.g_emitted[Len(u.g_emitted)].finish
  /\ u.numPrimsAssembled = t.numPrimsAssembled + 1
  /\ u.adjExtraVert = -1

\* C16: HasWork() is true exactly while draw vertices remain unprocessed or
\* an extra vertex of a triangle strip with adjacency is pending.  When the
\* loop of a ProcessVerts call has exhausted the input with such a vertex
\* pending, the call writes the pending primitive, once, if the batch holds
\* fewer than W primitives, and HasWork() is false after it; otherwise the
\* call writes nothing more and HasWork() stays true until the first call
\* after the batch is retired.  Once HasWork() is false ProcessVerts writes
\* nothing.
C16_LastStripPrimitiveOnce ==
  /\ HasWork(paCut) <=> (Processed(paCut) < paCut.numVertsToAssemble \/ paCut.adjExtraVert # -1)
  /\ \A junk3 \in Indeterminate :
       \A t \in {ProcessVertsLoop(paCut, junk3)} :
         \A u \in {ProcessVerts(paCut, junk3)} :
           /\ (t.numRemainingVerts = 0 /\ t.adjExtraVert # -1) =>
                IF t.numPrimsAssembled < W
                THEN FinishedOnce(t, u) /\ ~HasWork(u)
                ELSE u = t /\ HasWork(u)
           /\ ~HasWork(paCut) => u = paCut

\* The statement of C16 for the assembler as the factory builds it.
C16_HoldsWithoutCutVerts == ~paCut.processCutVerts => C16_LastStripPrimitiveOnce

\* The cached offsets of s are the offsets of its gather table, for every
\* vertex slot and every lane below NumPrims().
OffsetsFresh(s) ==
  \A v \in 0 .. (s.vertsPerPrim - 1), l \in Lanes :
    l < NumPrims(s) => s.vOffsets[v][l] = ComputeOffsets(s).vOffsets[v][l]

\* The step is a call of Assemble that returned true.
AssembleReturnedTrue ==
  /\ \E junk3 \in Indeterminate : paCut' = Assemble(paCut, junk3)
  /\ AssembleReturn(paCut')

\* C17: whenever Assemble returns true the offsets it gathers with are the
\* offsets derived from the current gather table for every vertex slot and
\* every lane below NumPrims(), for every sequence of feeds, Assemble and
\* NextPrim calls.
C17_OffsetsFollowIndices == [][AssembleReturnedTrue => OffsetsFresh(paCut')]_vars

\* The statement of C17 under the driver loop, where a feed precedes every
\* Assemble: the state in which NextPrim is due is the state Assemble left
\* when it returned true.
C17_HoldsUnderDriverLoop == driver.pc = "next" => OffsetsFresh(paCut)

\* Lane i of what Assemble(slot, result) left in result.
LaneOfResult(s, store, slot, i) ==
  [v \in 0 .. (s.vertsPerPrim - 1) |->
     [c \in 0 .. 3 |-> AssembleResult(s, store, slot)[v][c][i]]]

\* AssembleSingle agrees with the batch result on every primitive the batch
\* counts; a primitive past the last lane has no lane in the result.
SingleMatchesResult(s, store) ==
  \A slot \in 0 .. (KNOB_NUM_ATTRIBUTES - 1), i \in 0 .. (NumPrims(s) - 1) :
    /\ i \in Lanes
    /\ AssembleSingle(s, store, slot, i) = LaneOfResult(s, store, slot, i)

\* C18: after Assemble(slot, result) has returned true and before the next
\* feed or NextPrim, AssembleSingle(slot, i, out) yields for every vertex of
\* the primitive and every component the value of lane i of the result, for
\* every i below NumPrims().
C18_SingleMatchesBatch ==
  [][AssembleReturnedTrue => SingleMatchesResult(paCut', vertexStore')]_vars

\* The statement of C18 for assemblers that skip cut vertices, as the factory
\* constructs them.
C18_HoldsWithoutCutVerts ==
  [][(AssembleReturnedTrue /\ ~paCut.processCutVerts)
       => SingleMatchesResult(paCut', vertexStore')]_vars

\* The fields NextPrim never writes: the topology state, the processing and
\* write positions and the count of vertices left.
CarriedFields ==
  {"vert", "curIndex", "reverseWinding", "adjExtraVert", "curVertex",
   "headVertex", "numRemainingVerts"}

\* NextPrim called on s does what is claimed of it.
NextPrimAsClaimed(s) ==
  \A t \in {NextPrim(s)} :
    /\ IF s.numPrimsAssembled < W /\ s.numRemainingVerts > 0
       THEN t = s
       ELSE /\ t.tailVertex = s.curVertex
            /\ t.numPrimsAssembled = 0
            /\ \A i \in Lanes : t.vPrimId[i] = s.vPrimId[i] + W
    /\ \A f \in CarriedFields : t[f] = s[f]

\* C19: NextPrim() leaves every field unchanged if the batch holds fewer than
\* W primitives and vertices remain; otherwise it sets tailVertex to
\* curVertex, zeroes numPrimsAssembled and adds W to every lane of the
\* primitive-ID vector; in both cases the topology state, curVertex,
\* headVertex and numRemainingVerts are unchanged.
C19_NextPrimEffect == NextPrimAsClaimed(paCut)

\* The statement of C19 for assemblers that skip cut vertices, as the factory
\* constructs them.
C19_HoldsWithoutCutVerts == ~paCut.processCutVerts => NextPrimAsClaimed(paCut)

\* The core vertices of a primitive with adjacency: slots 1 and 2 of a line,
\* slots 0, 2 and 4 of a triangle.
CoreSlots(topo) ==
  IF topo \in {"TOP_LINE_LIST_ADJ", "TOP_LISTSTRIP_ADJ"} THEN <<1, 2>> ELSE <<0, 2, 4>>

\* The primitive verts, a function of the vertex slot, restricted to the core
\* slots of its topology.
ProjectOntoCore(topo, verts) ==
  [v \in 0 .. (Len(CoreSlots(topo)) - 1) |-> verts[CoreSlots(topo)[v + 1]]]

\* The draw of s run through the driver loop by the assembler constructed
\* like s but with the geometry stage enabled, over the cut vertices s met.
EnabledTwin(s, junk3) ==
  Replay(PA_STATE_CUT(s.numVerts, s.numVertsToAssemble, s.binTopology, TRUE,
                      s.processCutVerts, 0),
         [b \in 0 .. (NumBatches - 1) |-> -1], s.g_cutOrds, junk3)

\* The primitives s emitted are, one for one and in order, the core vertices
\* of the primitives of its enabled twin.
ProjectsEnabled(s) ==
  \A junk3 \in Indeterminate :
    \A r \in {EnabledTwin(s, junk3)} :
      /\ r.done
      /\ Len(s.g_emitted) = Len(r.emitted)
      /\ \A k \in 1 .. Len(s.g_emitted) :
           s.g_emitted[k].verts = ProjectOntoCore(s.binTopology, r.emitted[k].verts)

\* A finished draw of an adjacency topology with the geometry stage disabled
\* and cut vertices skipped.
DisabledAdjDone(s) ==
  /\ s.binTopology \in AdjTopologies
  /\ ~s.gsEnabled
  /\ ~s.processCutVerts
  /\ ~HasWork(s)

\* C20: for each adjacency topology, run on the same vertex stream and cut
\* mask with processCutVerts = false, the handler for the disabled geometry
\* stage emits over the whole draw the same number of primitives in the same
\* order as the handler for the enabled geometry stage, each the projection
\* of the enabled primitive onto slots (1,2) for lines and (0,2,4) for
\* triangles.
C20_DisabledProjectsEnabled == DisabledAdjDone(paCut) => ProjectsEnabled(paCut)

\* A finished triangle strip with adjacency, geometry stage disabled, that met
\* a cut and emitted primitives of both parities.
C20_Witness ==
  /\ DisabledAdjDone(paCut)
  /\ paCut.binTopology = "TOP_TRI_STRIP_ADJ"
  /\ paCut.g_cutOrds # {}
  /\ \E j, k \in 1 .. Len(paCut.g_emitted) :
       paCut.g_emitted[j].rev /\ ~paCut.g_emitted[k].rev

\* The members of PA_STATE_CUT, as opposed to the history kept about them.
Members ==
  {"numVerts", "binTopology", "needOffsets", "processCutVerts", "numVertsToAssemble",
   "numRemainingVerts", "numPrimsAssembled", "headVertex", "tailVertex", "curVertex",
   "curIndex", "pCutIndices", "indices", "vOffsets", "vPrimId", "reverseWinding",
   "adjExtraVert", "gsEnabled", "vertsPerPrim", "vert", "pfnPa"}

\* The loop of ProcessVerts is about to handle a vertex marked cut.
CutVertexDue(s) ==
  /\ s.numPrimsAssembled # W
  /\ s.numRemainingVerts > 0
  /\ s.curVertex # s.headVertex
  /\ IsCutIndex(s, s.curVertex)

\* The loop of ProcessVerts is about to handle a vertex not marked cut.
PlainVertexDue(s) ==
  /\ s.numPrimsAssembled # W
  /\ s.numRemainingVerts > 0
  /\ s.curVertex # s.headVertex
  /\ ~IsCutIndex(s, s.curVertex)

\* The three steps at a cut vertex, in the order stated, and the advance.
CutStepInOrder(s, junk3) ==
  Then(IF s.processCutVerts THEN CallPfnPa(s, s.curVertex, FALSE, junk3) ELSE s,
       LAMBDA a :
  Then(IF a.adjExtraVert # -1 THEN CallPfnPa(a, a.curVertex, TRUE, junk3) ELSE a,
       LAMBDA b :
  Then([b EXCEPT !.curIndex = 0, !.reverseWinding = FALSE, !.adjExtraVert = -1],
       LAMBDA c :
    [c EXCEPT !.curVertex = (c.curVertex + 1) % c.numVerts,
              !.numRemainingVerts = c.numRemainingVerts - 1])))

\* The primitives the iteration from s to t wrote.
WrittenBy(s, t) == SubSeq(t.g_emitted, Len(s.g_emitted) + 1, Len(t.g_emitted))

\* C21: at a vertex marked cut ProcessVerts (1) hands the cut vertex to the
\* handler as an ordinary vertex only if processCutVerts is true, (2) then
\* calls the finish step if an extra vertex is pending, (3) then resets the
\* topology state, and then advances curVertex by one modulo the ring size
\* and decrements numRemainingVerts, exactly as for a vertex not marked cut.
C21_CutVertexSteps ==
  /\ CutVertexDue(paCut) =>
       \A junk3 \in Indeterminate :
         \A t \in {ProcessVertsBody(paCut, junk3)}, e \in {CutStepInOrder(paCut, junk3)} :
           /\ \A f \in Members : t[f] = e[f]
           /\ FreshTopology(t)
           /\ \A w \in {WrittenBy(paCut, t)} :
                /\ ~paCut.processCutVerts => \A k \in 1 .. Len(w) : w[k].finish
                /\ \A j, k \in 1 .. Len(w) : (j < k /\ w[j].finish) => w[k].finish
                /\ \A k \in 1 .. Len(w) : w[k].lane = paCut.numPrimsAssembled + k - 1
  /\ (CutVertexDue(paCut) \/ PlainVertexDue(paCut)) =>
       \A junk3 \in Indeterminate :
         \A t \in {ProcessVertsBody(paCut, junk3)} :
           /\ t.curVertex = (paCut.curVertex + 1) % paCut.numVerts
           /\ t.numRemainingVerts = paCut.numRemainingVerts - 1

\* A cut vertex of a triangle strip with adjacency has just been processed as
\* an ordinary vertex and the pending primitive finished after it: the last
\* two primitives written are the handler's and then the finish step's.
C21_Witness ==
  /\ paCut.processCutVerts
  /\ (Processed(paCut) - 1) \in paCut.g_cutOrds
  /\ FreshTopology(paCut)
  /\ Len(paCut.g_emitted) >= 2
  /\ ~paCut.g_emitted[Len(paCut.g_emitted) - 1].finish
  /\ paCut.g_emitted[Len(paCut.g_emitted)].finish
  /\ paCut.g_emitted[Len(paCut.g_emitted)].lane
       = paCut.g_emitted[Len(paCut.g_emitted) - 1].lane + 1

\* ceil(n / W)
BatchesOf(n) == (n + W - 1) \div W

\* C22: for the tessellation assembler constructed with n primitives,
\* NumPrims() is min(remaining, W); NextPrim() decreases the remaining count
\* by NumPrims(), advances the three index pointers by the same amount and
\* returns HasWork(); the remaining count reaches 0 after exactly ceil(n/W)
\* NextPrim calls, the NumPrims() values of those batches sum to n, and
\* Assemble returns false if and only if the remaining count is 0.
C22_TessBatches ==
  /\ TessNumPrims(paTess) = (IF paTess.m_numPrims < W THEN paTess.m_numPrims ELSE W)
  /\ \A t \in {TessNextPrim(paTess)} :
       /\ t.m_numPrims = paTess.m_numPrims - TessNumPrims(paTess)
       /\ \A v \in 0 .. 2 : t.m_ppIndices[v] = paTess.m_ppIndices[v] + TessNumPrims(paTess)
       /\ TessNextPrimReturn(paTess) = (t.m_numPrims # 0)
  /\ paTess.m_numPrims >= 0
  /\ paTess.g_nextPrims <= BatchesOf(paTess.g_numPrims)
  /\ (paTess.m_numPrims = 0) = (paTess.g_nextPrims = BatchesOf(paTess.g_numPrims))
  /\ paTess.g_sumNumPrims + paTess.m_numPrims = paTess.g_numPrims
  /\ \A v \in 0 .. 2 : paTess.m_ppIndices[v] = paTess.g_sumNumPrims
  /\ \A slot \in 0 .. (paTess.m_numAttributes - 1), junk \in Indeterminate :
       TessAssemble(paTess, tessIndices, slot, junk, tessOut.verts).ret
         = (paTess.m_numPrims # 0)

\* A draw of MaxTessPrims primitives, not a multiple of W, is used up: the
\* last batch was partial and the Assemble after it returned false.
C22_Witness ==
  /\ paTess.g_numPrims = MaxTessPrims
  /\ paTess.g_numPrims % W # 0
  /\ paTess.m_numPrims = 0
  /\ paTess.g_nextPrims = BatchesOf(MaxTessPrims)
  /\ paTess.g_sumNumPrims = MaxTessPrims
  /\ ~tessOut.ret
  /\ tessOut.verts # NoVerts

\* The fields SetNextState assigns.
StagedFields ==
  {"pfnPaNextFunc", "nextNumSimdPrims", "nextNumPrimsIncrement", "nextReset",
   "pfnPaSingleFunc"}

\* The members of PA_STATE_OPT.
OptMembers ==
  {"numPrims", "numPrimsComplete", "numSimdPrims", "cur", "prev", "first", "counter",
   "reset", "primIDIncr", "primID", "pfnPaFunc", "pfnPaSingleFunc", "pfnPaFuncReset",
   "pfnPaNextFunc", "nextNumSimdPrims", "nextNumPrimsIncrement", "nextReset",
   "isStreaming", "streamSizeInVerts", "binTopology"}

\* C23: SetNextState changes nothing but the staged fields (pfnPaNextFunc,
\* nextNumSimdPrims, nextNumPrimsIncrement, nextReset) and the
\* single-primitive function, leaving the current batch function,
\* numSimdPrims, numPrimsComplete, counter, cur and prev unchanged; NextPrim()
\* commits the stage: it sets the current batch function to the staged one
\* and adds the staged increment to numPrimsComplete once.
C23_StagedUntilNextPrim ==
  /\ \A f \in PaFuncs, numSimdPrims \in 0 .. 1, numPrimsIncrement \in StagedIncrements,
        reset \in BOOLEAN :
       \A t \in {SetNextState(paOpt, f, PaSingleFunc(f), numSimdPrims,
                               numPrimsIncrement, reset)} :
         /\ \A m \in OptMembers \ StagedFields : t[m] = paOpt[m]
         /\ t.pfnPaNextFunc = f
         /\ t.nextNumSimdPrims = numSimdPrims
         /\ t.nextNumPrimsIncrement = numPrimsIncrement
         /\ t.nextReset = reset
         /\ t.pfnPaSingleFunc = PaSingleFunc(f)
  /\ \A r \in {OptNextPrim(paOpt)} :
       /\ r.obj.pfnPaFunc = paOpt.pfnPaNextFunc
       /\ r.obj.numPrimsComplete
            = Uint(paOpt.numPrimsComplete + paOpt.nextNumPrimsIncrement)

\* A stage was committed by NextPrim and another one is staged and not yet
\* committed.
C23_Witness ==
  /\ paOpt.pfnPaFunc = "PaFunc1"
  /\ paOpt.numPrimsComplete = W
  /\ paOpt.pfnPaNextFunc = "PaFunc0"
  /\ paOpt.nextNumPrimsIncrement = W \div 2
  /\ paOpt.pfnPaSingleFunc = "PaSingleFunc0"

\* C24: NextPrim() of the optimized assembler returns true if and only if the
\* staged numSimdPrims was greater than 0 and HasWork() is true after the
\* staged increment has been added; it does not return true with
\* numPrimsComplete >= numPrims.  The counter is unchanged when the staged
\* numSimdPrims was greater than 0; otherwise it becomes 0 if a reset was
\* staged and the assembler is not streaming, and counter + 1 in every other
\* case.
C24_NextPrimReturnAndCounter ==
  \A r \in {OptNextPrim(paOpt)} :
    /\ r.ret = (paOpt.nextNumSimdPrims > 0 /\ OptHasWork(r.obj))
    /\ OptHasWork(r.obj)
         = (Uint(paOpt.numPrimsComplete + paOpt.nextNumPrimsIncrement) < paOpt.numPrims)
    /\ r.ret => r.obj.numPrimsComplete < r.obj.numPrims
    /\ r.obj.counter =
         (IF paOpt.nextNumSimdPrims > 0 THEN paOpt.counter
          ELSE IF paOpt.nextReset /\ ~paOpt.isStreaming THEN 0
          ELSE Uint(paOpt.counter + 1))

\* A streaming assembler on which NextPrim has committed a full batch with
\* one more SIMD of primitives staged and work left: the counter stayed, the
\* staged count was taken over and decremented.
C24_Witness ==
  /\ paOpt.isStreaming
  /\ paOpt.nextNumSimdPrims = 1
  /\ paOpt.numSimdPrims = 0
  /\ paOpt.nextNumPrimsIncrement = W
  /\ paOpt.numPrimsComplete = W
  /\ paOpt.numPrims > W
  /\ paOpt.counter = 0
  /\ paOpt.pfnPaFunc = paOpt.pfnPaNextFunc
  /\ paOpt.nextReset

\* C25: in every reachable state of the cut-aware assembler, for every
\* topology, geometry-stage flag, processCutVerts value and cut mask,
\* curIndex <= 6, every write to vert[] used an index in 0..5, and every
\* vert[] slot copied into the gather table had been assigned a processed
\* stream vertex (the unassigned slot 3 of the reorder step of the triangle
\* strip with adjacency is never emitted).
C25_WindowWithinBounds ==
  /\ paCut.curIndex <= MAX_NUM_VERTS_PER_PRIM
  /\ paCut.g_windowOk
  /\ \A k \in 1 .. Len(paCut.g_emitted) :
       \A v \in 0 .. (paCut.vertsPerPrim - 1) :
         paCut.g_emitted[k].verts[v] \in 0 .. (Processed(paCut) - 1)

\* A triangle strip with adjacency, geometry stage enabled, whose constructor
\* and reorder step left the indeterminate word in vert[], has filled its
\* window to six entries, gone through the reorder step and emitted a second
\* primitive.
C25_Witness ==
  /\ paCut.pfnPa = "ProcessVertTriStripAdj<true>"
  /\ paCut.vOffsets[MAX_NUM_VERTS_PER_PRIM - 1][W - 1] \notin RingPos
  /\ Len(paCut.g_emitted) >= 2
  /\ paCut.g_emitted[2].rev
  /\ paCut.curIndex >= MAX_NUM_VERTS_PER_PRIM - 1

\* The ring positions whose contents the assembler still reads: fed vertices
\* not yet processed and the vertices referenced by the primitives of the
\* unretired batch, by the topology window or by the pending extra vertex.
StillRead(s) ==
  Unprocessed(s) \cup GatherRefs(s) \cup WindowRefs(s) \cup ExtraRef(s)

\* The stream vertices at draw positions ords, as they leave the vertex
\* shader: per vertex and component the float of slot 0, named as LoadFloat
\* names it.
StreamData(s, ords) ==
  [v \in 0 .. (s.vertsPerPrim - 1) |->
     [c \in 0 .. 3 |-> <<ords[v], 0, c>>]]

\* Every primitive of the batch Assemble returned gathers the data of the
\* stream vertices it was assembled from.
GathersOwnVertices(s, store) ==
  \A j \in (s.g_retiredPrims + 1) .. Len(s.g_emitted) :
    (j - s.g_retiredPrims - 1) \in Lanes =>
      LaneOfResult(s, store, 0, j - s.g_retiredPrims - 1)
        = StreamData(s, s.g_emitted[j].verts)

\* C26: under the driver loop, with the ring of MAX_NUM_VERTS_PER_PRIM x W
\* vertices and processCutVerts = false, for every topology, draw length and
\* cut mask no ring position handed out for writing holds a vertex that is
\* still unprocessed or referenced by a primitive of the unretired batch, by
\* the topology window or by the pending extra vertex, and every primitive
\* read after Assemble returned true gathers the data of the stream vertices
\* it was assembled from.
C26_DriverLoopKeepsRing ==
  ~paCut.processCutVerts =>
    /\ (driver.pc = "feed" /\ HasWork(paCut)) =>
         HandedOut(paCut) \cap StillRead(paCut) = {}
    /\ driver.pc = "next" => GathersOwnVertices(paCut, vertexStore)

\* The statement of C26 for draws without cut vertices.
C26_HoldsWithoutCuts == paCut.g_cutOrds = {} => C26_DriverLoopKeepsRing

\* ProcessVerts has visited the stream vertices in stream order, each once:
\* the read cursor is as many positions from the start as vertices were
\* processed, it has not passed the write cursor and the write cursor has
\* not lapped it, and every vertex processed is one of the draw.
VisitedInStreamOrder(s, fed) ==
  /\ Processed(s) \in 0 .. s.numVertsToAssemble
  /\ s.curVertex = Processed(s) % s.numVerts
  /\ s.headVertex = (fed * W) % s.numVerts
  /\ Processed(s) <= fed * W
  /\ fed * W - Processed(s) <= s.numVerts
  /\ \A p \in RingPos : s.g_ord[p] < s.numVertsToAssemble
  /\ \A k \in 1 .. Len(s.g_emitted) :
       \A v \in 0 .. (s.vertsPerPrim - 1) : s.g_emitted[k].verts[v] < s.numVertsToAssemble

\* C27: under the driver loop every draw of N vertices terminates for every
\* topology and cut mask: HasWork() eventually becomes false, each of the N
\* stream vertices has been visited by ProcessVerts once and in stream
\* order, numRemainingVerts has gone from N down to 0 without becoming
\* negative, and no vertex beyond the N-th is handed to a handler.
\* (It holds for every draw whose in_numVerts is below the sign bit of
\* int32_t, C27_HoldsBelowSignBit under SpecDriverFair; a draw of
\* SignBitVerts vertices starts with numRemainingVerts negative, HasWork()
\* false, and none of its vertices is ever visited.)
C27_DriverLoopTerminates ==
  /\ [](paCut.numRemainingVerts >= 0)
  /\ [](VisitedInStreamOrder(paCut, g_fed))
  /\ [](~HasWork(paCut) => (paCut.numRemainingVerts = 0
                              /\ Processed(paCut) = paCut.numVertsToAssemble))
  /\ <>(~HasWork(paCut))

C27_HoldsBelowSignBit ==
  (paCut.numVertsToAssemble < SignBitVerts) => C27_DriverLoopTerminates

\* The guarded caller is stuck: work is left, the batch is incomplete so
\* Assemble returns false, and the vertex store is full so nothing is fed.
StoreFullAndStarved(s) ==
  /\ HasWork(s)
  /\ IsVertexStoreFull(s)
  /\ \A junk3 \in Indeterminate : ~AssembleReturn(Assemble(s, junk3))

\* C28: a caller that feeds a batch only when IsVertexStoreFull() is false
\* and otherwise keeps calling Assemble (and NextPrim when it returns true)
\* always completes the draw: HasWork() becomes false, and the assembler is
\* never left with work, an incomplete batch and a full store for good.
C28_GuardedDrawCompletes ==
  /\ <>(~HasWork(paCut))
  /\ ~(<>[](StoreFullAndStarved(paCut)))

\* C29: after any sequence of GetNextVsOutput, GetNextStreamOutput, Assemble,
\* NextPrim and Reset calls, headVertex, curVertex and tailVertex are ring
\* positions (below numVerts) and the feed slot headVertex / W lies inside
\* the vertex ring.
C29_CursorsInsideRing ==
  /\ paCut.headVertex \in 0 .. (paCut.numVerts - 1)
  /\ paCut.curVertex \in 0 .. (paCut.numVerts - 1)
  /\ paCut.tailVertex \in 0 .. (paCut.numVerts - 1)
  /\ paCut.headVertex \div W \in 0 .. (NumBatches - 1)

\* (Without GetNextStreamOutput among the calls the cursors stay in the ring.)
C29_HoldsWithoutStreamOutput == C29_CursorsInsideRing

\* C30: every cut-aware assembler the factory constructs is constructed for
\* the topology the factory routed on (in_topo), whatever topology the API
\* state holds: binTopology is in_topo, the handler installed is the one of
\* in_topo, and the constructor's 'Unimplemented topology' assertion is not
\* reached.
C30_RoutedTopologyConstructed ==
  factory.cutPA =>
    /\ paCut.binTopology = factory.topo
    /\ paCut.pfnPa # Unassigned
    /\ paCut.pfnPa \in {SelectPfnPa(factory.topo, gs) : gs \in BOOLEAN}

\* (It holds whenever the API state holds the topology the factory is given.)
C30_HoldsWhenStateAgrees == C30_RoutedTopologyConstructed

\* C31: in every reachable state of the optimized assembler, the states after
\* the final NextPrim() and after Reset() included, NumPrims() computed in
\* unsigned arithmetic is at most W: the subtraction
\* W - (numPrimsComplete + nextNumPrimsIncrement - numPrims) does not wrap
\* around.  Stated for the increments the topology functions stage (at most
\* W), not for the indeterminate word before the first SetNextState.
C31_NumPrimsAtMostW ==
  paOpt.nextNumPrimsIncrement \in StagedIncrements =>
    /\ OptNumPrims(paOpt) <= W
    /\ \A sum \in {Uint(paOpt.numPrimsComplete + paOpt.nextNumPrimsIncrement)} :
         sum > paOpt.numPrims => sum - paOpt.numPrims <= W

\* (It holds as long as the assembler has work: until the final NextPrim().)
C31_HoldsWhileWorkIsLeft ==
  (OptHasWork(paOpt) /\ paOpt.numPrims + W < UintMod) => C31_NumPrimsAtMostW

Max0(x) == IF x > 0 THEN x ELSE 0

\* The reference count of primitives of a cut-free run of len vertices.
RunPrimitives(topo, len) ==
  CASE topo \in ListTopologies -> len \div VerticesPerPrimitive(topo)
    [] topo = "TOP_LINE_STRIP" -> Max0(len - 1)
    [] topo = "TOP_TRIANGLE_STRIP" -> Max0(len - 2)
    [] topo = "TOP_LISTSTRIP_ADJ" -> Max0(len - 3)
    [] topo = "TOP_TRI_STRIP_ADJ" -> Max0((len \div 2) - 2)

\* The sum of the reference counts over the maximal cut-free runs of the
\* vertices i .. n - 1 of a stream with the cut vertices cuts, the run that
\* reaches vertex i being len vertices long.
RECURSIVE DrawPrimitivesFrom(_, _, _, _, _)
DrawPrimitivesFrom(topo, n, cuts, i, len) ==
  IF i >= n THEN RunPrimitives(topo, len)
  ELSE IF i \in cuts
       THEN RunPrimitives(topo, len) + DrawPrimitivesFrom(topo, n, cuts, i + 1, 0)
       ELSE DrawPrimitivesFrom(topo, n, cuts, i + 1, len + 1)

DrawPrimitives(topo, n, cuts) == DrawPrimitivesFrom(topo, n, cuts, 0, 0)

\* C32: with processCutVerts = false the number of primitives emitted over a
\* draw is the sum, over the maximal cut-free runs of the vertex stream, of
\* the reference count of the run: floor(L/k) for the list topologies,
\* max(0, L-1) line strip, max(0, L-2) triangle strip, max(0, L-3) line strip
\* with adjacency, max(0, floor(L/2)-2) triangle strip with adjacency;
\* wherever batch boundaries and retires fall.
C32_PrimitiveCountPerRun ==
  (~paCut.processCutVerts /\ Done(paCut) /\ paCut.g_resets = 0) =>
    Len(paCut.g_emitted) =
      DrawPrimitives(paCut.binTopology, paCut.numVertsToAssemble, paCut.g_cutOrds)

\* A strip draw under the driver loop is over: a cut fell inside it, both
\* runs gave primitives and more than one batch of them was emitted.
C32_Witness ==
  /\ ~paCut.processCutVerts
  /\ driver.pc = "feed"
  /\ Done(paCut)
  /\ paCut.binTopology \in {"TOP_LINE_STRIP", "TOP_TRIANGLE_STRIP", "TOP_LISTSTRIP_ADJ"}
  /\ paCut.g_cutOrds # {}
  /\ Len(paCut.g_emitted) > W
  /\ Cardinality({paCut.g_emitted[k].run : k \in 1 .. Len(paCut.g_emitted)}) > 1
  /\ Len(paCut.g_emitted) =
       DrawPrimitives(paCut.binTopology, paCut.numVertsToAssemble, paCut.g_cutOrds)

====
